---------------------------- MODULE Spec2Model ----------------------------
(***************************************************************************)
(* Powercast closed-loop forecast correction: Forecast Event Logger,       *)
(* Error Observer, Reasoning Gateway, Rule Engine and Forecast Adjuster    *)
(* (src/backend/app/services, src/backend/app/api/forecast.py).            *)
(*                                                                         *)
(* Numbers the Python code holds as floats are exact rationals here,       *)
(* records [n, d] with d > 0 in lowest terms.  None is the string "None".  *)
(***************************************************************************)
EXTENDS Integers, Sequences, FiniteSets, TLC

\* None, for an Optional[str], an Optional[float] and an Optional[dict].
None == "None"
NoneNum == [n |-> 0, d |-> 0]
NoRow == [none |-> TRUE]

(***************************************************************************)
(* Exact rational arithmetic                                               *)
(***************************************************************************)
Abs(x) == IF x < 0 THEN -x ELSE x

RECURSIVE GCD(_, _)
GCD(a, b) == IF b = 0 THEN a ELSE GCD(b, a % b)

Rat(n, d) ==
    LET s == IF d < 0 THEN -1 ELSE 1
        g == GCD(Abs(n), Abs(d))
    IN  [n |-> (s * n) \div g, d |-> (s * d) \div g]

RInt(k) == [n |-> k, d |-> 1]
RAdd(a, b) == Rat(a.n * b.d + b.n * a.d, a.d * b.d)
RSub(a, b) == Rat(a.n * b.d - b.n * a.d, a.d * b.d)
RMul(a, b) == Rat(a.n * b.n, a.d * b.d)
RDiv(a, b) == Rat(a.n * b.d, a.d * b.n)
RNeg(a) == [n |-> -a.n, d |-> a.d]
RLt(a, b) == a.n * b.d < b.n * a.d
RLe(a, b) == a.n * b.d <= b.n * a.d
RAbs(a) == [n |-> Abs(a.n), d |-> a.d]
\* Python's min(a, b) and max(a, b): the first argument unless the second is
\* strictly smaller (larger).
RMin(a, b) == IF RLt(b, a) THEN b ELSE a
RMax(a, b) == IF RLt(a, b) THEN b ELSE a

(***************************************************************************)
(* Rule Engine: configuration (rule_engine.py:25-32)                       *)
(***************************************************************************)
MAX_ADJUSTMENT_PCT == RInt(15)
MIN_RULE_CONFIDENCE == Rat(5, 10)
MIN_SIMILARITY_THRESHOLD == Rat(6, 10)

\* Bounds of the model.
MaxRules == 2
MaxHits == 2
MaxAuditRows == 3

LessonIds == {"L1", "L2", "L3"}
Directions == {"up", "down"}

VARIABLES
    engine_supabase,      \* RuleEngine._supabase is configured
    generalized_lessons,  \* table generalized_lessons: lesson id -> row, or None
    rule_applications,    \* table rule_applications: the audit rows inserted
    stats_updates,        \* update_lesson_success_rate rpc calls that took effect, per lesson
    stats_calls,          \* update_lesson_success_rate rpc calls issued, per lesson
    rule_lists,           \* the rule lists callers hand to apply_rules in this run
    prediction_lists,     \* the prediction series callers hand over in this run
    hit_lists,            \* the hit lists the similarity search returns in this run
    match_call,           \* last match_rules call: its hits and lesson lookups
    matched,              \* last match_rules result
    apply_call,           \* last apply_rules call: its arguments
    apply_result,         \* last apply_rules result (AdjustmentResult), or None
    reorder_call          \* the apply_rules call before the last one, on the
                          \* same rules in another order

engineVars == <<engine_supabase, generalized_lessons, rule_applications,
                stats_updates, stats_calls, rule_lists, prediction_lists,
                hit_lists,
                match_call, matched, apply_call, apply_result, reorder_call>>

\* Forecast Logger (forecast_logger.py): the ForecastLogger singleton, the
\* forecast_events table behind it and the Python objects it shares with its
\* callers.
VARIABLES
    logger_supabase,      \* ForecastLogger._supabase is configured
    forecast_events,      \* table forecast_events: the rows inserted, in order
    fallback_logs,        \* ForecastLogger._fallback_logs: the list object it names
    lists,                \* live list objects: reference -> forecast ids of its events
    events,               \* ForecastEvent objects created in this run, by forecast id
    dicts,                \* metadata dict objects, by reference
    next_forecast_id,     \* the next unused forecast id
    prefilled,            \* events already buffered when the run begins
    log_history,          \* what each log_forecast call of this run was handed
    flush_called,         \* flush_fallback_logs has run
    last_op               \* the last ForecastLogger call and what it returned

loggerVars == <<logger_supabase, forecast_events, fallback_logs, lists, events,
                dicts, next_forecast_id, prefilled, log_history, flush_called,
                last_op>>

\* Threads calling into the ForecastLogger singleton.
VARIABLES
    pc,                   \* per thread: where it stands inside its call
    frame,                \* per thread: the locals of its call
    calls                 \* per thread: calls it has completed

threadVars == <<pc, frame, calls>>

\* Error Observer (error_observer.py): the ErrorObserver singleton and the
\* forecast_errors table behind it.
VARIABLES
    observer_supabase,    \* ErrorObserver._supabase is configured
    forecast_errors,      \* table forecast_errors: the rows inserted, in order
    analyzed_predictions, \* the forecasts handed to analyze_forecast in this run
    analyze_call,         \* last analyze_forecast call: its arguments and course
    analyze_result,       \* last analyze_forecast result: the errors returned
    mape_call,            \* last _check_mape call: its series and what it returned
    peak_call             \* last _check_peak_miss call: its series and what it returned

observerVars == <<observer_supabase, forecast_errors, analyzed_predictions,
                  analyze_call, analyze_result, mape_call, peak_call>>

\* Forecast Adjuster (forecast_adjuster.py) behind the forecast endpoint
\* (api/forecast.py).
VARIABLES
    enable_adjustments,   \* ENABLE_ADJUSTMENTS, read from the environment at import
    base_forecasts,       \* the base forecasts the ML service produces in this run
    adjust_count,         \* forecasts served so far
    adjust_call,          \* last served forecast: its input and the course it took
    adjust_response       \* last served forecast: what the caller received

adjusterVars == <<enable_adjustments, base_forecasts, adjust_count, adjust_call,
                  adjust_response>>

\* LLM Reasoning Service (llm_reasoning.py).
VARIABLES
    llm_model,            \* LLMReasoningService._model is set
    llm_errors,           \* the forecast errors handed to analyze_error in this run
    llm_call,             \* last analyze_error call: its arguments and attempts
    llm_result,           \* last analyze_error result
    validate_call,        \* last validate() call: its object and what it returned
    llm_task              \* the analyze_error coroutine in progress: where it
                          \* stands, its attempt and the provider's answers

llmVars == <<llm_model, llm_errors, llm_call, llm_result, validate_call,
             llm_task>>

\* Learning API (api/learning.py).
VARIABLES
    trigger_call,         \* last trigger_error_analysis request: its course and answer
    stored_lessons        \* the rows store_lesson inserted into generalized_lessons

learningVars == <<trigger_call, stored_lessons>>

vars == <<engineVars, loggerVars, threadVars, observerVars, adjusterVars, llmVars,
          learningVars>>

\* What the calls of one component leave alone.
notEngine == <<loggerVars, threadVars, observerVars, adjusterVars, llmVars,
               learningVars>>
notLogger == <<engineVars, observerVars, adjusterVars, llmVars, learningVars>>
notObserver == <<engineVars, loggerVars, threadVars, adjusterVars, llmVars,
                 learningVars>>
notAdjuster == <<threadVars, observerVars, llmVars, learningVars>>
notLLM == <<engineVars, loggerVars, threadVars, observerVars, adjusterVars,
            learningVars>>
notLearning == <<engineVars, loggerVars, threadVars, adjusterVars, llmVars>>

(***************************************************************************)
(* ApplicableRule (rule_engine.py:39-68).  The text fields failure_cause,  *)
(* context_signature and generalized_rule only feed the explanation text.  *)
(***************************************************************************)
effective_weight(rule) == RMul(rule.llm_confidence, rule.context_similarity)

\* An adjustment that is not weighted by confidence and similarity.
effective_adjustment_Unweighted(rule) ==
    LET magnitude == RMin(rule.magnitude_pct, MAX_ADJUSTMENT_PCT)
    IN  IF rule.direction = "down" THEN RNeg(magnitude) ELSE magnitude

effective_adjustment(rule) ==
    LET magnitude == RMin(rule.magnitude_pct, MAX_ADJUSTMENT_PCT)
        signed == IF rule.direction = "down" THEN RNeg(magnitude) ELSE magnitude
    IN  RMul(signed, effective_weight(rule))

\* applicable_rules.sort(key=effective_weight, reverse=True): a stable sort,
\* highest weight first, equal weights in their original order.
RECURSIVE InsertByWeight(_, _)
InsertByWeight(sorted, rule) ==
    IF sorted = <<>> THEN <<rule>>
    ELSE IF RLt(effective_weight(Head(sorted)), effective_weight(rule))
         THEN <<rule>> \o sorted
         ELSE <<Head(sorted)>> \o InsertByWeight(Tail(sorted), rule)

RECURSIVE SortByWeight(_)
SortByWeight(rules) ==
    IF rules = <<>> THEN <<>>
    ELSE InsertByWeight(SortByWeight(SubSeq(rules, 1, Len(rules) - 1)),
                        rules[Len(rules)])

(***************************************************************************)
(* match_rules (rule_engine.py:148-199)                                    *)
(***************************************************************************)
\* A SimilarContext hit (context_engine.py:91-99).
Similarities == {Rat(5, 10), Rat(6, 10), Rat(9, 10)}
Confidences == {NoneNum, RInt(0), Rat(4, 10), Rat(5, 10)}
Hits == [lesson_id : LessonIds \cup {None},
         similarity : Similarities,
         llm_confidence : Confidences]

\* Python truthiness of an Optional[float]: None and 0.0 are falsy.
Truthy(x) == x # NoneNum /\ x # RInt(0)

\* The three filters applied before the lesson is fetched (lines 167-172).
PassesHitFilters(similar) ==
    /\ similar.lesson_id # None
    /\ ~RLt(similar.similarity, MIN_SIMILARITY_THRESHOLD)
    /\ ~(Truthy(similar.llm_confidence)
         /\ RLt(similar.llm_confidence, MIN_RULE_CONFIDENCE))

\* _get_lesson (lines 201-217): None (NoRow) without a backend, when the query raises
\* (also .single() on a missing row), else the row.
get_lesson(supabase, table, lesson_id, raises) ==
    IF ~supabase THEN NoRow
    ELSE IF raises THEN NoRow
    ELSE table[lesson_id]

\* dict.get(key, default) on adjustment_params.
GetOr(params, key, default) ==
    IF key \in DOMAIN params THEN params[key] ELSE default

\* Lines 180-192: the ApplicableRule built from a hit and its lesson.
MakeRule(similar, lesson) ==
    LET adj_params == GetOr(lesson, "adjustment_params", <<>>)
    IN  [lesson_id |-> similar.lesson_id,
         adjustment_type |-> GetOr(adj_params, "adjustment_type", "scale"),
         direction |-> GetOr(adj_params, "direction", "up"),
         magnitude_pct |-> GetOr(adj_params, "magnitude_pct", RInt(5)),
         llm_confidence |-> IF Truthy(similar.llm_confidence)
                            THEN similar.llm_confidence ELSE Rat(5, 10),
         context_similarity |-> similar.similarity]

\* A lesson that is used whenever its row exists, active or not.
LessonUsable_AnyRow(lesson) == lesson # NoRow

LessonUsable(lesson) == lesson # NoRow /\ GetOr(lesson, "is_active", FALSE)

\* lessons[i] is what _get_lesson returned for similar_contexts[i].
RECURSIVE CollectRules(_, _, _)
CollectRules(similar_contexts, lessons, i) ==
    IF i > Len(similar_contexts) THEN <<>>
    ELSE LET similar == similar_contexts[i]
             rest == CollectRules(similar_contexts, lessons, i + 1)
         IN  IF PassesHitFilters(similar) /\ LessonUsable(lessons[i])
             THEN <<MakeRule(similar, lessons[i])>> \o rest
             ELSE rest

match_rules(similar_contexts, lessons) ==
    SortByWeight(CollectRules(similar_contexts, lessons, 1))

\* rule_engine.py:180: lesson.get("adjustment_params", {}) is None for a null
\* column, and None.get raises inside match_rules.
match_raises(similar_contexts, lessons) ==
    \E i \in 1..Len(similar_contexts) :
        /\ PassesHitFilters(similar_contexts[i])
        /\ LessonUsable(lessons[i])
        /\ GetOr(lessons[i], "adjustment_params", <<>>) = NoRow

(***************************************************************************)
(* apply_rules and _blend_adjustments (rule_engine.py:219-332)             *)
(***************************************************************************)
RECURSIVE SumWeightedAdjustment(_)
SumWeightedAdjustment(rules) ==
    IF rules = <<>> THEN RInt(0)
    ELSE RAdd(SumWeightedAdjustment(SubSeq(rules, 1, Len(rules) - 1)),
              RMul(effective_adjustment(rules[Len(rules)]),
                   effective_weight(rules[Len(rules)])))

RECURSIVE SumWeight(_)
SumWeight(rules) ==
    IF rules = <<>> THEN RInt(0)
    ELSE RAdd(SumWeight(SubSeq(rules, 1, Len(rules) - 1)),
              effective_weight(rules[Len(rules)]))

\* A blend that is returned as computed, without the final clamp.
ClampBlended_Missing(blended) == blended

\* Lines 329-330: max(-MAX, min(MAX, blended)).
ClampBlended(blended) ==
    RMax(RNeg(MAX_ADJUSTMENT_PCT), RMin(MAX_ADJUSTMENT_PCT, blended))

\* Lines 307-322: the audit record of one rule, on the first prediction.
MakeApplication(predictions, rule, forecast_event_id) ==
    LET example_pred == IF predictions # <<>> THEN predictions[1] ELSE RInt(0)
        factor == RAdd(RInt(1), RDiv(effective_adjustment(rule), RInt(100)))
    IN  [forecast_event_id |-> forecast_event_id,
         lesson_id |-> rule.lesson_id,
         prediction_index |-> 0,
         original_prediction |-> example_pred,
         adjusted_prediction |-> RMul(example_pred, factor),
         adjustment_factor |-> factor,
         match_confidence |-> effective_weight(rule)]

\* A blend in which the first rule of the list decides alone.
blend_adjustments_FirstWins(predictions, rules, forecast_event_id) ==
    [blended |-> ClampBlended(effective_adjustment(rules[1])),
     applications |-> [i \in 1..Len(rules) |->
          MakeApplication(predictions, rules[i], forecast_event_id)]]

blend_adjustments(predictions, rules, forecast_event_id) ==
    LET total_weight == SumWeight(rules)
        weighted_adjustment == SumWeightedAdjustment(rules)
        blended == IF RLt(RInt(0), total_weight)
                   THEN RDiv(weighted_adjustment, total_weight)
                   ELSE RInt(0)
    IN  [blended |-> ClampBlended(blended),
         applications |-> [i \in 1..Len(rules) |->
              MakeApplication(predictions, rules[i], forecast_event_id)]]

\* apply_rules without the early return of lines 238-246: an empty rule list
\* is blended like any other.
apply_rules_Blended(predictions, applicable_rules, forecast_event_id) ==
    LET b == blend_adjustments(predictions, applicable_rules, forecast_event_id)
        adjustment_factor == RAdd(RInt(1), RDiv(b.blended, RInt(100)))
    IN  [adjusted_predictions |-> [i \in 1..Len(predictions) |->
                                     RMul(predictions[i], adjustment_factor)],
         original_predictions |-> predictions,
         applied_rules |-> b.applications,
         total_adjustment_pct |-> b.blended,
         explanation |-> IF applicable_rules = <<>> THEN "No adjustments applied."
                         ELSE "Applied rule(s)",
         confidence |-> IF applicable_rules = <<>> THEN RInt(0)
                        ELSE RDiv(SumWeight(applicable_rules),
                                  RInt(Len(applicable_rules)))]

apply_rules(predictions, applicable_rules, forecast_event_id) ==
    IF applicable_rules = <<>>
    THEN [adjusted_predictions |-> predictions,
          original_predictions |-> predictions,
          applied_rules |-> <<>>,
          total_adjustment_pct |-> RInt(0),
          explanation |-> "No applicable rules found",
          confidence |-> RInt(1)]
    ELSE LET b == blend_adjustments(predictions, applicable_rules,
                                    forecast_event_id)
             adjustment_factor == RAdd(RInt(1), RDiv(b.blended, RInt(100)))
         IN  [adjusted_predictions |-> [i \in 1..Len(predictions) |->
                                          RMul(predictions[i], adjustment_factor)],
              original_predictions |-> predictions,
              applied_rules |-> b.applications,
              total_adjustment_pct |-> b.blended,
              explanation |-> "Applied rule(s)",
              confidence |-> RDiv(SumWeight(applicable_rules),
                                  RInt(Len(applicable_rules)))]

(***************************************************************************)
(* _store_application (rule_engine.py:353-371)                             *)
(***************************************************************************)
\* What the backend does with one application: the insert raises, the insert
\* succeeds and the stats rpc raises, or both succeed.
StoreOutcomes == {"insert_fails", "rpc_fails", "stored"}

\* An audit write that never calls the stats rpc.
update_lesson_success_rate_Skipped(db, lesson_uuid, outcome) == db

\* Lines 365-368: the rpc is issued; it takes effect unless it raises.
update_lesson_success_rate(db, lesson_uuid, outcome) ==
    IF outcome = "rpc_fails"
    THEN [db EXCEPT !.calls[lesson_uuid] = @ + 1]
    ELSE [db EXCEPT !.calls[lesson_uuid] = @ + 1,
                    !.stats[lesson_uuid] = @ + 1]

\* _store_application without the try/except of lines 359-371: a failing
\* insert or rpc propagates to apply_rules.
store_application_Unguarded(supabase, db, application, outcome) ==
    IF ~supabase THEN db
    ELSE IF outcome = "insert_fails" THEN [db EXCEPT !.raised = TRUE]
    ELSE LET inserted == [db EXCEPT !.rows = Append(@, application)]
             updated == update_lesson_success_rate(inserted,
                            application.lesson_id, outcome)
         IN  IF outcome = "rpc_fails" THEN [updated EXCEPT !.raised = TRUE]
             ELSE updated

\* db is [rows, stats, calls, raised]; the result is db after
\* _store_application.  raised says that an exception left the call: never,
\* both backend calls sit inside try/except Exception.  A failed insert
\* skips the rpc.
store_application(supabase, db, application, outcome) ==
    IF ~supabase THEN db
    ELSE IF outcome = "insert_fails" THEN db
    ELSE update_lesson_success_rate([db EXCEPT !.rows = Append(@, application)],
                                    application.lesson_id, outcome)

\* Lines 270-272: for app in applied_rules: self._store_application(app).
RECURSIVE StoreApplications(_, _, _, _)
StoreApplications(supabase, db, applications, outcomes) ==
    IF applications = <<>> \/ db.raised THEN db
    ELSE StoreApplications(
             supabase,
             store_application(supabase, db, Head(applications), Head(outcomes)),
             Tail(applications), Tail(outcomes))

(***************************************************************************)
(* Rule Engine: inputs, initial state and operations                       *)
(***************************************************************************)
\* Rules as callers may construct them: magnitudes below 0 and above the
\* ceiling included.
RuleDomain == [lesson_id : {"L1"},
               adjustment_type : {"scale"},
               direction : Directions,
               magnitude_pct : {RInt(-20), RInt(10), RInt(20)},
               llm_confidence : {RInt(0), Rat(5, 10), RInt(1)},
               context_similarity : {Rat(6, 10), RInt(1)}]

SeqsUpTo(S, k) == UNION {[1..n -> S] : n \in 0..k}

\* Rules of a lesson store, as apply_rules is handed them with the audit
\* table behind it.
AuditedRules == [lesson_id : {"L1"},
                 adjustment_type : {"scale"},
                 direction : Directions,
                 magnitude_pct : {RInt(-20), RInt(10)},
                 llm_confidence : {Rat(5, 10), RInt(1)},
                 context_similarity : {RInt(1)}]

PredictionLists == {<<>>, <<RInt(100)>>, <<RInt(100), RInt(0), RInt(250)>>}

\* Two contents of table generalized_lessons: a row, or no row, per lesson id.
LessonTables ==
    {[l \in LessonIds |->
        CASE l = "L1" -> [is_active |-> TRUE,
                          adjustment_params |-> [adjustment_type |-> "peak",
                                                 direction |-> "down",
                                                 magnitude_pct |-> RInt(10)]]
          [] l = "L2" -> [is_active |-> FALSE,
                          adjustment_params |-> [adjustment_type |-> "bias",
                                                 direction |-> "up",
                                                 magnitude_pct |-> RInt(8)]]
          [] OTHER -> NoRow],
     [l \in LessonIds |->
        CASE l = "L1" -> [is_active |-> TRUE, adjustment_params |-> <<>>]
          [] l = "L2" -> NoRow
          [] OTHER -> [is_active |-> TRUE,
                       adjustment_params |-> [adjustment_type |-> "ramp",
                                              direction |-> "up",
                                              magnitude_pct |-> RInt(15)]]]}

NoCall == [called |-> FALSE]

InitEngine(supabase, tables) ==
    /\ engine_supabase = supabase
    /\ generalized_lessons \in tables
    /\ rule_applications = <<>>
    /\ stats_updates = [l \in LessonIds |-> 0]
    /\ stats_calls = [l \in LessonIds |-> 0]
    /\ match_call = NoCall
    /\ matched = <<>>
    /\ apply_call = NoCall
    /\ apply_result = NoCall
    /\ reorder_call = NoCall

\* RuleEngine.match_rules on the hits of one similarity search.  The lesson of
\* a hit is fetched only when the hit passed the first three filters.
MatchRules ==
    \E similar_contexts \in hit_lists :
      \E raises \in [1..Len(similar_contexts) -> BOOLEAN] :
        LET n == Len(similar_contexts)
            fetched(i) == PassesHitFilters(similar_contexts[i])
            lessons == [i \in 1..n |->
                          IF fetched(i)
                          THEN get_lesson(engine_supabase, generalized_lessons,
                                          similar_contexts[i].lesson_id, raises[i])
                          ELSE NoRow]
        IN  /\ \A i \in 1..n : raises[i] => fetched(i)
            /\ match_call' = [called |-> TRUE,
                              similar_contexts |-> similar_contexts,
                              lessons |-> lessons,
                              raised |-> match_raises(similar_contexts, lessons)]
            /\ matched' = IF match_raises(similar_contexts, lessons) THEN matched
                          ELSE match_rules(similar_contexts, lessons)
            /\ UNCHANGED <<engine_supabase, generalized_lessons,
                           rule_applications, stats_updates, stats_calls,
                           rule_lists,
                           prediction_lists, hit_lists, apply_call, apply_result,
                           reorder_call>>
            /\ UNCHANGED notEngine

\* RuleEngine.apply_rules, the audit writes of lines 270-272 included.
ApplyRules ==
    \E predictions \in prediction_lists, applicable_rules \in rule_lists :
      \E outcomes \in [1..Len(applicable_rules) -> StoreOutcomes] :
        LET n == Len(applicable_rules)
            result == apply_rules(predictions, applicable_rules, "fc_1")
            db == StoreApplications(engine_supabase,
                                    [rows |-> rule_applications,
                                     stats |-> stats_updates,
                                     calls |-> stats_calls,
                                     raised |-> FALSE],
                                    result.applied_rules, outcomes)
        IN  /\ engine_supabase => Len(rule_applications) + n <= MaxAuditRows
            /\ ~engine_supabase => \A i \in 1..n : outcomes[i] = "stored"
            /\ apply_call' = [called |-> TRUE,
                              predictions |-> predictions,
                              applicable_rules |-> applicable_rules,
                              outcomes |-> outcomes]
            /\ apply_result' = IF db.raised THEN [raised |-> TRUE] ELSE result
            /\ rule_applications' = db.rows
            /\ stats_updates' = db.stats
            /\ stats_calls' = db.calls
            /\ UNCHANGED <<engine_supabase, generalized_lessons, rule_lists,
                           prediction_lists, hit_lists, match_call, matched,
                           reorder_call>>
            /\ UNCHANGED notEngine

\* Rules of three lessons with different weights: one above the ceiling, one
\* with a negative magnitude, one of weight zero.
MaxFused == 3

FusedRules ==
    {[lesson_id |-> "L1", adjustment_type |-> "scale", direction |-> "up",
      magnitude_pct |-> RInt(10), llm_confidence |-> Rat(8, 10),
      context_similarity |-> Rat(9, 10)],
     [lesson_id |-> "L2", adjustment_type |-> "peak", direction |-> "down",
      magnitude_pct |-> RInt(20), llm_confidence |-> RInt(1),
      context_similarity |-> RInt(1)],
     [lesson_id |-> "L3", adjustment_type |-> "bias", direction |-> "up",
      magnitude_pct |-> RInt(5), llm_confidence |-> Rat(5, 10),
      context_similarity |-> Rat(6, 10)],
     [lesson_id |-> "L1", adjustment_type |-> "ramp", direction |-> "down",
      magnitude_pct |-> RInt(-20), llm_confidence |-> Rat(7, 10),
      context_similarity |-> RInt(1)],
     [lesson_id |-> "L2", adjustment_type |-> "scale", direction |-> "up",
      magnitude_pct |-> RInt(10), llm_confidence |-> RInt(0),
      context_similarity |-> RInt(1)]}

\* RuleEngine.apply_rules called twice on one series: on a rule list, then on
\* the same rules in the order order[1], order[2], ...
ApplyReordered ==
    \E predictions \in prediction_lists, applicable_rules \in rule_lists :
      \E order \in Permutations(1..Len(applicable_rules)) :
        LET n == Len(applicable_rules)
            reordered == [i \in 1..n |-> applicable_rules[order[i]]]
            first == apply_rules(predictions, applicable_rules, "fc_1")
            second == apply_rules(predictions, reordered, "fc_1")
            outcomes == [i \in 1..n |-> "stored"]
            db1 == StoreApplications(engine_supabase,
                       [rows |-> rule_applications, stats |-> stats_updates,
                        calls |-> stats_calls, raised |-> FALSE],
                       first.applied_rules, outcomes)
            db == StoreApplications(engine_supabase, db1, second.applied_rules,
                                    outcomes)
        IN  /\ engine_supabase => Len(rule_applications) + 2 * n <= MaxAuditRows
            /\ reorder_call' = [called |-> TRUE,
                                predictions |-> predictions,
                                applicable_rules |-> applicable_rules,
                                result |-> first]
            /\ apply_call' = [called |-> TRUE,
                              predictions |-> predictions,
                              applicable_rules |-> reordered,
                              outcomes |-> outcomes]
            /\ apply_result' = second
            /\ rule_applications' = db.rows
            /\ stats_updates' = db.stats
            /\ stats_calls' = db.calls
            /\ UNCHANGED <<engine_supabase, generalized_lessons, rule_lists,
                           prediction_lists, hit_lists, match_call, matched>>
            /\ UNCHANGED notEngine

(***************************************************************************)
(* Forecast Logger (forecast_logger.py)                                    *)
(***************************************************************************)
\* self._max_fallback_logs (forecast_logger.py:81).
MAX_FALLBACK_LOGS == 1000

\* log_forecast calls of one run.
MaxLogs == 2

\* The runs start with an empty buffer or with one that earlier calls filled to
\* just under the cap.
PrefillCounts == {0, MAX_FALLBACK_LOGS - 1}

\* The prediction dicts callers hand to log_forecast: {timestamps, point, q10,
\* q90}, one value per step.
LoggedPredictions ==
    {[timestamps |-> <<1>>, point |-> <<RInt(100)>>,
      q10 |-> <<RInt(90)>>, q90 |-> <<RInt(110)>>],
     [timestamps |-> <<1, 2>>, point |-> <<RInt(100), RInt(0)>>,
      q10 |-> <<RInt(95), RInt(0)>>, q90 |-> <<RInt(105), RInt(5)>>]}

\* A metadata dict as get_forecast builds it (forecast.py: horizon_hours).
BaseMetadata == [horizon_hours |-> 24]

\* ForecastEvent (forecast_logger.py:28-39).  metadata is a reference to the
\* caller's dict, 0 for None; forecast_start, created_at and input_features
\* are carried along untouched and left out.
ForecastEvent(forecast_id, region_code, model_version, horizon_hours, predictions, metadata) ==
    [forecast_id |-> forecast_id, region_code |-> region_code,
     model_version |-> model_version, horizon_hours |-> horizon_hours,
     predictions |-> predictions, metadata |-> metadata]

\* The events buffered before the run begins.
PrefilledEvent(forecast_id) ==
    ForecastEvent(forecast_id, "SWISS_GRID", "v1", 24,
                  [timestamps |-> <<1>>, point |-> <<RInt(100)>>,
                   q10 |-> <<RInt(90)>>, q90 |-> <<RInt(110)>>], 0)

event_of(evs, forecast_id) ==
    IF forecast_id \in DOMAIN evs THEN evs[forecast_id]
    ELSE PrefilledEvent(forecast_id)

\* ForecastEvent.to_db_dict (forecast_logger.py:41-52): metadata or {}.
to_db_dict(event, ds) ==
    [forecast_id |-> event.forecast_id, region_code |-> event.region_code,
     model_version |-> event.model_version,
     horizon_hours |-> event.horizon_hours,
     predictions |-> event.predictions,
     metadata |-> IF event.metadata = 0 THEN <<>> ELSE ds[event.metadata]]

\* dataclasses.asdict: a deep copy of the event's fields.
asdict(event, ds) ==
    [forecast_id |-> event.forecast_id, region_code |-> event.region_code,
     model_version |-> event.model_version,
     horizon_hours |-> event.horizon_hours,
     predictions |-> event.predictions,
     metadata |-> IF event.metadata = 0 THEN NoRow ELSE ds[event.metadata]]

\* A new Python object gets a reference no live object uses.
NewRef(heap) ==
    CHOOSE r \in 1..(Cardinality(DOMAIN heap) + 1) :
        /\ r \notin DOMAIN heap
        /\ \A q \in 1..(r - 1) : q \in DOMAIN heap

\* Reference counting frees the list objects nothing names any more.
Collect(heap, live) == [r \in live |-> heap[r]]

\* The last n elements of s.
LastN(s, n) == IF Len(s) > n THEN SubSeq(s, Len(s) - n + 1, Len(s)) ELSE s

\* self._fallback_logs[-self._max_fallback_logs:] with the cap dropped.
TrimToCap_Missing(logs) == logs

\* self._fallback_logs[-self._max_fallback_logs:] (forecast_logger.py:162).
TrimToCap(logs) ==
    IF Len(logs) > MAX_FALLBACK_LOGS
    THEN SubSeq(logs, Len(logs) - MAX_FALLBACK_LOGS + 1, Len(logs))
    ELSE logs

\* _log_fallback (forecast_logger.py:156-165) run without interruption, on the
\* heap of list objects and the list self._fallback_logs names.
\* A fallback that drops the event instead of buffering it.
log_fallback_Dropped(heap, ref, forecast_id) ==
    [lists |-> heap, fallback_logs |-> ref]

log_fallback(heap, ref, forecast_id) ==
    LET appended == Append(heap[ref], forecast_id)
    IN  IF Len(appended) > MAX_FALLBACK_LOGS
        THEN LET fresh == NewRef(heap)
             IN  [lists |-> (fresh :> TrimToCap(appended)), fallback_logs |-> fresh]
        ELSE [lists |-> [heap EXCEPT ![ref] = appended], fallback_logs |-> ref]

\* The row .eq("forecast_id", id).single() yields; no row or several raise.
SingleRow(rows, forecast_id) ==
    LET matching == {i \in 1..Len(rows) : rows[i].forecast_id = forecast_id}
    IN  IF Cardinality(matching) = 1
        THEN rows[CHOOSE i \in matching : TRUE]
        ELSE NoRow

\* get_forecast_by_id (forecast_logger.py:206-225).  The loop of lines 209-211
\* returns the first buffered event with the id.
FirstBuffered(logs, evs, ds, forecast_id) ==
    LET matching == {i \in 1..Len(logs) : logs[i] = forecast_id}
    IN  IF matching = {} THEN NoRow
        ELSE LET first == CHOOSE i \in matching : \A j \in matching : i <= j
             IN  asdict(event_of(evs, logs[first]), ds)

get_forecast_by_id(supabase, rows, logs, evs, ds, forecast_id, query_raises) ==
    IF ~supabase THEN FirstBuffered(logs, evs, ds, forecast_id)
    ELSE IF query_raises THEN NoRow
    ELSE SingleRow(rows, forecast_id)

\* The loop of flush_fallback_logs (forecast_logger.py:239-244): every event
\* is inserted in buffer order, the ones whose insert raised (the ids in
\* failing) are collected in remaining.
\* A flush that empties the buffer whatever the inserts did.
FlushLoop_ClearsAll(rows, logs, evs, ds, failing) ==
    LET succeeds(forecast_id) == forecast_id \notin failing
        inserted == SelectSeq(logs, succeeds)
    IN  [rows |-> rows \o [i \in 1..Len(inserted) |->
                              to_db_dict(event_of(evs, inserted[i]), ds)],
         remaining |-> <<>>,
         flushed |-> Len(inserted)]

FlushLoop(rows, logs, evs, ds, failing) ==
    LET fails(forecast_id) == forecast_id \in failing
        succeeds(forecast_id) == forecast_id \notin failing
        inserted == SelectSeq(logs, succeeds)
    IN  [rows |-> rows \o [i \in 1..Len(inserted) |->
                              to_db_dict(event_of(evs, inserted[i]), ds)],
         remaining |-> SelectSeq(logs, fails),
         flushed |-> Len(inserted)]

\* The events of the buffer whose insert may fail independently; the inserts
\* of the events buffered before the run fail or succeed together.
FailingSets(logs, evs) ==
    LET own == {logs[i] : i \in 1..Len(logs)} \cap DOMAIN evs
        old == {logs[i] : i \in 1..Len(logs)} \ DOMAIN evs
    IN  {f \cup o : f \in SUBSET own, o \in {{}, old}}

NoOp == [op |-> "none"]

InitLogger(supabase, count) ==
    /\ logger_supabase = supabase
    /\ forecast_events = <<>>
    /\ fallback_logs = 1
    /\ lists = (1 :> [i \in 1..count |-> i])
    /\ events = <<>>
    /\ dicts = <<>>
    /\ next_forecast_id = count + 1
    /\ prefilled = count
    /\ log_history = <<>>
    /\ flush_called = FALSE
    /\ last_op = NoOp

\* ForecastLogger.log_forecast (forecast_logger.py:99-150).  The caller hands
\* over its predictions and a metadata dict of its own, or no metadata with
\* the one-step forecast.
LogForecast ==
    \E predictions \in LoggedPredictions, insert_raises \in BOOLEAN :
        LET forecast_id == next_forecast_id
            with_metadata == Len(predictions.point) > 1
            ds == IF with_metadata THEN Append(dicts, BaseMetadata) ELSE dicts
            event == ForecastEvent(forecast_id, "SWISS_GRID", "v1", 24,
                                   predictions,
                                   IF with_metadata THEN Len(ds) ELSE 0)
            to_database == logger_supabase /\ ~insert_raises
            buffered == log_fallback(lists, fallback_logs, forecast_id)
        IN  /\ Len(log_history) < MaxLogs
            /\ insert_raises => logger_supabase
            /\ next_forecast_id' = forecast_id + 1
            /\ dicts' = ds
            /\ events' = (forecast_id :> event) @@ events
            /\ IF to_database
               THEN /\ forecast_events' = Append(forecast_events, to_db_dict(event, ds))
                    /\ UNCHANGED <<lists, fallback_logs>>
               ELSE /\ lists' = buffered.lists
                    /\ fallback_logs' = buffered.fallback_logs
                    /\ UNCHANGED forecast_events
            /\ log_history' = Append(log_history,
                   [forecast_id |-> forecast_id, predictions |-> predictions,
                    metadata |-> IF with_metadata THEN BaseMetadata ELSE NoRow,
                    route |-> IF to_database THEN "database" ELSE "fallback"])
            /\ last_op' = [op |-> "log", forecast_id |-> forecast_id,
                           route |-> IF to_database THEN "database" ELSE "fallback"]
            /\ UNCHANGED <<logger_supabase, prefilled, flush_called>>
            /\ UNCHANGED <<notLogger, threadVars>>

\* ForecastLogger.get_forecast_by_id (forecast_logger.py:206-225).
GetForecastById ==
    \E forecast_id \in 1..next_forecast_id, query_raises \in BOOLEAN :
        /\ query_raises => logger_supabase
        /\ forecast_id \in DOMAIN events \cup {1, next_forecast_id}
        /\ last_op' = [op |-> "get", forecast_id |-> forecast_id,
                       query_raises |-> query_raises,
                       result |-> get_forecast_by_id(logger_supabase,
                                     forecast_events, lists[fallback_logs],
                                     events, dicts, forecast_id, query_raises)]
        /\ UNCHANGED <<logger_supabase, forecast_events, fallback_logs, lists,
                       events, dicts, next_forecast_id, prefilled, log_history,
                       flush_called>>
        /\ UNCHANGED <<notLogger, threadVars>>

\* ForecastLogger.flush_fallback_logs (forecast_logger.py:227-249).
FlushFallbackLogs ==
    LET logs == lists[fallback_logs]
    IN  IF ~logger_supabase \/ logs = <<>>
        THEN /\ last_op' = [op |-> "flush", flushed |-> 0, before |-> logs,
                            failing |-> {}]
             /\ flush_called' = TRUE
             /\ UNCHANGED <<logger_supabase, forecast_events, fallback_logs,
                            lists, events, dicts, next_forecast_id, prefilled,
                            log_history>>
             /\ UNCHANGED <<notLogger, threadVars>>
        ELSE \E failing \in FailingSets(logs, events) :
               LET done == FlushLoop(forecast_events, logs, events, dicts,
                                     failing)
                   fresh == NewRef(lists)
               IN  /\ forecast_events' = done.rows
                   /\ lists' = (fresh :> done.remaining)
                   /\ fallback_logs' = fresh
                   /\ last_op' = [op |-> "flush", flushed |-> done.flushed,
                                  before |-> logs, failing |-> failing]
                   /\ flush_called' = TRUE
                   /\ UNCHANGED <<logger_supabase, events, dicts,
                                  next_forecast_id, prefilled, log_history>>
                   /\ UNCHANGED <<notLogger, threadVars>>

(***************************************************************************)
(* ForecastLogger called from several threads.  The class takes no lock    *)
(* (forecast_logger.py:59-249), so a thread can be preempted between any   *)
(* two reads or writes of self._fallback_logs; a database call is one      *)
(* step.                                                                   *)
(***************************************************************************)
Threads == {"t1", "t2"}

\* Calls each thread makes.
MaxCalls == 2

NoFrame == [event |-> 0, list |-> 0, slice |-> <<>>, index |-> 0,
            remaining |-> <<>>, flushed |-> 0]

IdleThreads ==
    /\ pc = [t \in Threads |-> "idle"]
    /\ frame = [t \in Threads |-> NoFrame]
    /\ calls = [t \in Threads |-> 0]

\* The list objects some name still reaches.
LiveLists(attr, frames) ==
    ({attr} \cup {frames[t].list : t \in Threads}) \ {0}

Return(t) ==
    /\ pc' = [pc EXCEPT ![t] = "idle"]
    /\ frame' = [frame EXCEPT ![t] = NoFrame]
    /\ calls' = [calls EXCEPT ![t] = @ + 1]
    /\ lists' = Collect(lists, LiveLists(fallback_logs, [frame EXCEPT ![t] = NoFrame]))

\* log_forecast up to the insert (forecast_logger.py:124-146).
ThreadLogStart(t) ==
    \E predictions \in LoggedPredictions, insert_raises \in BOOLEAN :
        LET forecast_id == next_forecast_id
            event == ForecastEvent(forecast_id, "SWISS_GRID", "v1", 24,
                                   predictions, 0)
            to_database == logger_supabase /\ ~insert_raises
        IN  /\ pc[t] = "idle"
            /\ calls[t] < MaxCalls
            /\ insert_raises => logger_supabase
            /\ next_forecast_id' = forecast_id + 1
            /\ events' = (forecast_id :> event) @@ events
            /\ log_history' = Append(log_history,
                   [forecast_id |-> forecast_id, predictions |-> predictions,
                    metadata |-> NoRow,
                    route |-> IF to_database THEN "database" ELSE "fallback"])
            /\ IF to_database
               THEN /\ forecast_events' = Append(forecast_events,
                                                 to_db_dict(event, dicts))
                    /\ calls' = [calls EXCEPT ![t] = @ + 1]
                    /\ UNCHANGED <<pc, frame>>
               ELSE /\ pc' = [pc EXCEPT ![t] = "load"]
                    /\ frame' = [frame EXCEPT ![t].event = forecast_id]
                    /\ UNCHANGED <<forecast_events, calls>>
            /\ UNCHANGED <<logger_supabase, fallback_logs, lists, dicts,
                           prefilled, flush_called, last_op>>
            /\ UNCHANGED notLogger

\* self._fallback_logs.append(event), the attribute read (line 158).
ThreadLogLoad(t) ==
    /\ pc[t] = "load"
    /\ frame' = [frame EXCEPT ![t].list = fallback_logs]
    /\ pc' = [pc EXCEPT ![t] = "append"]
    /\ UNCHANGED <<loggerVars, calls, notLogger>>

\* self._fallback_logs.append(event), the append to the list read (line 158).
ThreadLogAppend(t) ==
    /\ pc[t] = "append"
    /\ lists' = [lists EXCEPT ![frame[t].list] = Append(@, frame[t].event)]
    /\ pc' = [pc EXCEPT ![t] = "check"]
    /\ UNCHANGED <<logger_supabase, forecast_events, fallback_logs, events,
                   dicts, next_forecast_id, prefilled, log_history,
                   flush_called, last_op, frame, calls, notLogger>>

\* if len(self._fallback_logs) > self._max_fallback_logs (line 161).
ThreadLogCheck(t) ==
    /\ pc[t] = "check"
    /\ IF Len(lists[fallback_logs]) > MAX_FALLBACK_LOGS
       THEN /\ pc' = [pc EXCEPT ![t] = "slice"]
            /\ UNCHANGED <<lists, frame, calls>>
       ELSE Return(t)
    /\ UNCHANGED <<logger_supabase, forecast_events, fallback_logs, events,
                   dicts, next_forecast_id, prefilled, log_history,
                   flush_called, last_op, notLogger>>

\* self._fallback_logs[-self._max_fallback_logs:], the new list (line 162).
ThreadLogSlice(t) ==
    /\ pc[t] = "slice"
    /\ frame' = [frame EXCEPT ![t].slice = LastN(lists[fallback_logs],
                                                 MAX_FALLBACK_LOGS)]
    /\ pc' = [pc EXCEPT ![t] = "store"]
    /\ UNCHANGED <<loggerVars, calls, notLogger>>

\* self._fallback_logs = ..., the assignment (line 162), and the return.
ThreadLogStore(t) ==
    LET fresh == NewRef(lists)
    IN  /\ pc[t] = "store"
        /\ fallback_logs' = fresh
        /\ pc' = [pc EXCEPT ![t] = "idle"]
        /\ frame' = [frame EXCEPT ![t] = NoFrame]
        /\ calls' = [calls EXCEPT ![t] = @ + 1]
        /\ lists' = Collect((fresh :> frame[t].slice) @@ lists,
                            LiveLists(fresh, [frame EXCEPT ![t] = NoFrame]))
        /\ UNCHANGED <<logger_supabase, forecast_events, events, dicts,
                       next_forecast_id, prefilled, log_history, flush_called,
                       last_op, notLogger>>

\* flush_fallback_logs up to the start of its loop (lines 233-239).
ThreadFlushStart(t) ==
    /\ pc[t] = "idle"
    /\ calls[t] < MaxCalls
    /\ flush_called' = TRUE
    /\ IF ~logger_supabase \/ lists[fallback_logs] = <<>>
       THEN /\ calls' = [calls EXCEPT ![t] = @ + 1]
            /\ UNCHANGED <<pc, frame>>
       ELSE /\ pc' = [pc EXCEPT ![t] = "iterate"]
            /\ frame' = [frame EXCEPT ![t].list = fallback_logs]
            /\ UNCHANGED calls
    /\ UNCHANGED <<logger_supabase, forecast_events, fallback_logs, lists,
                   events, dicts, next_forecast_id, prefilled, log_history,
                   last_op, notLogger>>

\* One turn of the loop of flush_fallback_logs (lines 239-244): the next event
\* of the list being walked is inserted, or the loop ends.
ThreadFlushNext(t) ==
    /\ pc[t] = "iterate"
    /\ IF frame[t].index < Len(lists[frame[t].list])
       THEN \E insert_raises \in BOOLEAN :
              LET forecast_id == lists[frame[t].list][frame[t].index + 1]
              IN  /\ IF insert_raises
                     THEN /\ frame' = [frame EXCEPT ![t].index = @ + 1,
                                          ![t].remaining = Append(@, forecast_id)]
                          /\ UNCHANGED forecast_events
                     ELSE /\ frame' = [frame EXCEPT ![t].index = @ + 1,
                                          ![t].flushed = @ + 1]
                          /\ forecast_events' = Append(forecast_events,
                                to_db_dict(event_of(events, forecast_id), dicts))
                  /\ UNCHANGED pc
       ELSE /\ pc' = [pc EXCEPT ![t] = "assign"]
            /\ UNCHANGED <<frame, forecast_events>>
    /\ UNCHANGED <<logger_supabase, fallback_logs, lists, events, dicts,
                   next_forecast_id, prefilled, log_history, flush_called,
                   last_op, calls, notLogger>>

\* self._fallback_logs = remaining (line 246), and the return.
ThreadFlushAssign(t) ==
    LET fresh == NewRef(lists)
    IN  /\ pc[t] = "assign"
        /\ fallback_logs' = fresh
        /\ pc' = [pc EXCEPT ![t] = "idle"]
        /\ frame' = [frame EXCEPT ![t] = NoFrame]
        /\ calls' = [calls EXCEPT ![t] = @ + 1]
        /\ lists' = Collect((fresh :> frame[t].remaining) @@ lists,
                            LiveLists(fresh, [frame EXCEPT ![t] = NoFrame]))
        /\ UNCHANGED <<logger_supabase, forecast_events, events, dicts,
                       next_forecast_id, prefilled, log_history, flush_called,
                       last_op, notLogger>>

(***************************************************************************)
(* Error Observer (error_observer.py)                                      *)
(***************************************************************************)
\* ErrorThresholds defaults (error_observer.py:78-100).
mape_low == RInt(5)
mape_medium == RInt(10)
mape_high == RInt(15)
mape_critical == RInt(25)
peak_medium == RInt(200)
peak_high == RInt(400)
peak_critical == RInt(800)
ramp_medium == RInt(100)
ramp_high == RInt(200)
ramp_critical == RInt(400)

\* Rows the forecast_errors table holds at most.
MaxErrorRows == 2

ForecastIds == {"f1"}

\* The prediction dicts analyze_forecast is handed: aligned series with a wide
\* interval, a q10 series shorter than the point series, an empty forecast, a
\* point series with a missing value, and a forecast without quantiles.
AnalyzedPredictions ==
    {[point |-> <<RInt(100), RInt(100)>>,
      q10 |-> <<RInt(50), RInt(50)>>, q90 |-> <<RInt(150), RInt(150)>>],
     [point |-> <<RInt(100), RInt(100), RInt(100)>>,
      q10 |-> <<RInt(50), RInt(50)>>,
      q90 |-> <<RInt(150), RInt(150), RInt(150)>>],
     [point |-> <<>>, q10 |-> <<>>, q90 |-> <<>>],
     [point |-> <<RInt(100), NoneNum>>,
      q10 |-> <<RInt(50), RInt(50)>>, q90 |-> <<RInt(150), RInt(150)>>],
     [point |-> <<RInt(100), RInt(100)>>]}

\* The actuals analyze_forecast is handed (actuals["values"]).
ActualValues ==
    {<<>>,
     <<RInt(100), RInt(100)>>,
     <<RInt(112), RInt(112)>>,
     <<RInt(120), RInt(120), RInt(120)>>,
     <<RInt(300), RInt(100)>>}

RECURSIVE SumSeq(_)
SumSeq(s) == IF s = <<>> THEN RInt(0) ELSE RAdd(Head(s), SumSeq(Tail(s)))

\* np.mean of a non-empty array.
Mean(s) == RDiv(SumSeq(s), RInt(Len(s)))

\* np.argmax: the first index of the largest value.
ArgMax(s) ==
    CHOOSE i \in 1..Len(s) :
        /\ \A j \in 1..Len(s) : RLe(s[j], s[i])
        /\ \A j \in 1..(i - 1) : RLt(s[j], s[i])

\* np.diff.
Diff(s) == [i \in 1..(Len(s) - 1) |-> RSub(s[i + 1], s[i])]

\* np.max of a non-empty array.
MaxOf(s) == s[ArgMax(s)]

\* ForecastError (error_observer.py:43-55); notes and actual_values only
\* travel along.
ForecastError(forecast_event_id, error_type, severity, mape, mae, peak_error_mw, ramp_error_mw_per_hour) ==
    [forecast_event_id |-> forecast_event_id, error_type |-> error_type,
     severity |-> severity, mape |-> mape, mae |-> mae,
     peak_error_mw |-> peak_error_mw,
     ramp_error_mw_per_hour |-> ramp_error_mw_per_hour,
     analysis_triggered |-> FALSE]

\* A classification that needs a MAPE above a threshold, not on it.
get_mape_severity_Strict(mape) ==
    IF RLt(mape_critical, mape) THEN "critical"
    ELSE IF RLt(mape_high, mape) THEN "high"
    ELSE IF RLt(mape_medium, mape) THEN "medium"
    ELSE "low"

\* _get_mape_severity (error_observer.py:356-365).
get_mape_severity(mape) ==
    IF RLe(mape_critical, mape) THEN "critical"
    ELSE IF RLe(mape_high, mape) THEN "high"
    ELSE IF RLe(mape_medium, mape) THEN "medium"
    ELSE "low"

\* _get_peak_severity (error_observer.py:367-376).
get_peak_severity(peak_error_mw) ==
    IF RLe(peak_critical, peak_error_mw) THEN "critical"
    ELSE IF RLe(peak_high, peak_error_mw) THEN "high"
    ELSE IF RLe(peak_medium, peak_error_mw) THEN "medium"
    ELSE "low"

\* _get_ramp_severity (error_observer.py:378-387).
get_ramp_severity(ramp_error) ==
    IF RLe(ramp_critical, ramp_error) THEN "critical"
    ELSE IF RLe(ramp_high, ramp_error) THEN "high"
    ELSE IF RLe(ramp_medium, ramp_error) THEN "medium"
    ELSE "low"

\* _check_mape (error_observer.py:218-248): no error or one.
check_mape(forecast_event_id, predictions, actuals) ==
    LET nonzero(i) == actuals[i] # RInt(0)
        mask == SelectSeq([i \in 1..Len(actuals) |-> i], nonzero)
        mape == RMul(Mean([k \in 1..Len(mask) |->
                             RAbs(RDiv(RSub(actuals[mask[k]], predictions[mask[k]]),
                                       actuals[mask[k]]))]),
                     RInt(100))
        mae == Mean([i \in 1..Len(actuals) |->
                       RAbs(RSub(actuals[i], predictions[i]))])
    IN  IF mask = <<>> THEN <<>>
        ELSE IF get_mape_severity(mape) = "low" THEN <<>>
        ELSE <<ForecastError(forecast_event_id, "mape_spike",
                             get_mape_severity(mape), mape, mae, NoneNum,
                             NoneNum)>>

\* The order min() puts two ErrorSeverity members in: ErrorSeverity is a str
\* enum, so they compare as their values, alphabetically.
SeverityStringRank == [critical |-> 1, high |-> 2, low |-> 3, medium |-> 4]

MinSeverity(a, b) ==
    IF SeverityStringRank[b] < SeverityStringRank[a] THEN b ELSE a

\* ["low", "medium", "high", "critical"][min(3, index + 1)].
NextSeverity(severity) ==
    CASE severity = "low" -> "medium"
      [] severity = "medium" -> "high"
      [] OTHER -> "critical"

\* _check_peak_miss (error_observer.py:250-291).
check_peak_miss(forecast_event_id, predictions, actuals) ==
    LET pred_peak_idx == ArgMax(predictions)
        actual_peak_idx == ArgMax(actuals)
        peak_error_mw == RAbs(RSub(predictions[pred_peak_idx],
                                   actuals[actual_peak_idx]))
        timing_error_intervals == Abs(pred_peak_idx - actual_peak_idx)
        by_magnitude == get_peak_severity(peak_error_mw)
        severity == IF timing_error_intervals > 8
                    THEN MinSeverity("critical", NextSeverity(by_magnitude))
                    ELSE by_magnitude
    IN  IF severity = "low" THEN <<>>
        ELSE <<ForecastError(forecast_event_id, "peak_miss", severity,
                             NoneNum, NoneNum, peak_error_mw, NoneNum)>>

\* _check_ramp_error (error_observer.py:293-327).
check_ramp_error(forecast_event_id, predictions, actuals) ==
    LET pred_ramps == Diff(predictions)
        actual_ramps == Diff(actuals)
        ramp_errors == [i \in 1..Len(pred_ramps) |->
                          RAbs(RSub(pred_ramps[i], actual_ramps[i]))]
        ramp_error_per_hour == RMul(MaxOf(ramp_errors), RInt(4))
    IN  IF Len(predictions) < 2 THEN <<>>
        ELSE IF get_ramp_severity(ramp_error_per_hour) = "low" THEN <<>>
        ELSE <<ForecastError(forecast_event_id, "ramp_error",
                             get_ramp_severity(ramp_error_per_hour), NoneNum,
                             NoneNum, NoneNum, ramp_error_per_hour)>>

\* The length numpy broadcasts two one-dimensional arrays to; -1 when their
\* shapes do not fit and the operation raises ValueError.
BroadcastLen(a, b) ==
    IF a = -1 \/ b = -1 THEN -1
    ELSE IF a = b THEN a
    ELSE IF a = 1 THEN b
    ELSE IF b = 1 THEN a
    ELSE -1

\* Element i of an array broadcast to a longer one.
At(s, i) == IF Len(s) = 1 THEN s[1] ELSE s[i]

\* The length of (actuals >= q10) & (actuals <= q90).
IntervalLen(q10, q90, actuals) ==
    BroadcastLen(BroadcastLen(Len(actuals), Len(q10)),
                 BroadcastLen(Len(actuals), Len(q90)))

\* _check_variance (error_observer.py:329-354) where the shapes fit.  The mean
\* of an empty array is nan, and nan is below no bound.
check_variance(forecast_event_id, q10, q90, actuals) ==
    LET n == IntervalLen(q10, q90, actuals)
        covered == {i \in 1..n : /\ RLe(At(q10, i), At(actuals, i))
                                 /\ RLe(At(actuals, i), At(q90, i))}
        coverage == Rat(Cardinality(covered) * 100, n)
    IN  IF n = 0 THEN <<>>
        ELSE IF RLt(coverage, RInt(50))
             THEN <<ForecastError(forecast_event_id, "variance", "high",
                                  NoneNum, NoneNum, NoneNum, NoneNum)>>
        ELSE IF RLt(coverage, RInt(65))
             THEN <<ForecastError(forecast_event_id, "variance", "medium",
                                  NoneNum, NoneNum, NoneNum, NoneNum)>>
        ELSE <<>>

\* s[:n].
Prefix(s, n) == SubSeq(s, 1, IF Len(s) < n THEN Len(s) ELSE n)

\* predictions.get(key, pred_point * factor).
Quantile(predictions, key, factor) ==
    IF key \in DOMAIN predictions THEN predictions[key]
    ELSE [i \in 1..Len(predictions.point) |-> RMul(predictions.point[i], factor)]

\* Lines 163-200 of analyze_forecast: the errors collected when the try block
\* is left, by the early return, by an exception or at its end.
detect_errors(forecast_event_id, predictions, actual_values) ==
    LET point == predictions.point
        min_len == IF Len(point) < Len(actual_values)
                   THEN Len(point) ELSE Len(actual_values)
        pred_point == Prefix(point, min_len)
        actuals == Prefix(actual_values, min_len)
        pred_q10 == Prefix(Quantile(predictions, "q10", Rat(9, 10)), min_len)
        pred_q90 == Prefix(Quantile(predictions, "q90", Rat(11, 10)), min_len)
        first_three == check_mape(forecast_event_id, pred_point, actuals)
                       \o check_peak_miss(forecast_event_id, pred_point, actuals)
                       \o check_ramp_error(forecast_event_id, pred_point, actuals)
    IN  IF \E i \in 1..Len(point) : point[i] = NoneNum
        THEN [errors |-> <<>>, left |-> "exception"]
        ELSE IF min_len = 0
        THEN [errors |-> <<>>, left |-> "no_data"]
        ELSE IF IntervalLen(pred_q10, pred_q90, actuals) = -1
        THEN [errors |-> first_three, left |-> "exception"]
        ELSE [errors |-> first_three
                         \o check_variance(forecast_event_id, pred_q10,
                                           pred_q90, actuals),
              left |-> "end"]

\* ForecastError.to_db_dict (error_observer.py:57-70) plus the column
\* analysis_completed_at, null in a new row.
error_to_db_dict(error) ==
    [forecast_event_id |-> error.forecast_event_id,
     error_type |-> error.error_type, severity |-> error.severity,
     analysis_triggered |-> error.analysis_triggered,
     analysis_completed |-> FALSE]

\* _store_error (error_observer.py:389-398).
store_error(supabase, rows, error, insert_raises) ==
    IF supabase /\ ~insert_raises THEN Append(rows, error_to_db_dict(error))
    ELSE rows

\* The update of _trigger_analysis (error_observer.py:412-419): every row of
\* the forecast and error type.
trigger_update(supabase, rows, error, update_raises) ==
    IF supabase /\ ~update_raises
    THEN [i \in 1..Len(rows) |->
            IF /\ rows[i].forecast_event_id = error.forecast_event_id
               /\ rows[i].error_type = error.error_type
            THEN [rows[i] EXCEPT !.analysis_triggered = TRUE]
            ELSE rows[i]]
    ELSE rows

\* The loop of lines 203-209 from error i on: the table and the error objects
\* after it.
RECURSIVE StoreErrors(_, _, _, _, _)
StoreErrors(supabase, rows, errors, outcomes, i) ==
    IF i > Len(errors) THEN [rows |-> rows, errors |-> errors]
    ELSE LET error == errors[i]
             stored == store_error(supabase, rows, error, outcomes[i].insert_raises)
             significant == error.severity \in {"high", "critical"}
         IN  IF significant
             THEN StoreErrors(supabase,
                      trigger_update(supabase, stored, error,
                                     outcomes[i].update_raises),
                      [errors EXCEPT ![i].analysis_triggered = TRUE],
                      outcomes, i + 1)
             ELSE StoreErrors(supabase, stored, errors, outcomes, i + 1)

InitObserver(supabase) ==
    /\ observer_supabase = supabase
    /\ forecast_errors = <<>>
    /\ analyze_call = NoCall
    /\ analyze_result = <<>>
    /\ mape_call = NoCall
    /\ peak_call = NoCall
    /\ trigger_call = NoCall
    /\ stored_lessons = <<>>

\* The table and the returned errors when analyze_forecast is over: the loop
\* of lines 203-209 runs only if the try block got that far.
analyze_forecast(supabase, rows, detected, outcomes) ==
    IF detected.left = "end"
    THEN StoreErrors(supabase, rows, detected.errors, outcomes, 1)
    ELSE [rows |-> rows, errors |-> detected.errors]

\* ErrorObserver.analyze_forecast (error_observer.py:144-216).
AnalyzeForecast ==
    \E forecast_event_id \in ForecastIds,
       predictions \in analyzed_predictions,
       actual_values \in ActualValues :
      \E detected \in {detect_errors(forecast_event_id, predictions,
                                      actual_values)} :
        \E outcomes \in [1..Len(detected.errors) ->
                            [insert_raises : BOOLEAN, update_raises : BOOLEAN]] :
          \E done \in {analyze_forecast(observer_supabase, forecast_errors,
                                        detected, outcomes)} :
            /\ \A i \in 1..Len(detected.errors) :
                  /\ outcomes[i].insert_raises =>
                        (observer_supabase /\ detected.left = "end")
                  /\ outcomes[i].update_raises =>
                        /\ observer_supabase /\ detected.left = "end"
                        /\ detected.errors[i].severity \in {"high", "critical"}
            /\ Len(done.rows) <= MaxErrorRows
            /\ forecast_errors' = done.rows
            /\ analyze_result' = done.errors
            /\ analyze_call' = [called |-> TRUE,
                                forecast_event_id |-> forecast_event_id,
                                predictions |-> predictions,
                                actual_values |-> actual_values,
                                left |-> detected.left,
                                outcomes |-> outcomes,
                                rows_before |-> forecast_errors]
            /\ UNCHANGED <<observer_supabase, analyzed_predictions, mape_call,
                           peak_call>>
            /\ UNCHANGED notObserver

\* Predictions against an actual of 1000: the MAPE of a step is a tenth of its
\* distance from 1000.
MapePredictions ==
    {RInt(1000), RInt(955), Rat(9501, 10), RInt(950), Rat(9001, 10), RInt(900),
     RInt(1120), Rat(8501, 10), RInt(850), RInt(820), Rat(7501, 10), RInt(750),
     RInt(1300)}

MapeActuals == {<<RInt(1000), RInt(1000)>>, <<RInt(1000), RInt(0)>>,
                <<RInt(0), RInt(0)>>}

\* Line 229: the mean absolute percentage error over the non-zero actuals.
mape_of(predictions, actuals) ==
    LET nonzero(i) == actuals[i] # RInt(0)
        mask == SelectSeq([i \in 1..Len(actuals) |-> i], nonzero)
    IN  IF mask = <<>> THEN NoneNum
        ELSE RMul(Mean([k \in 1..Len(mask) |->
                          RAbs(RDiv(RSub(actuals[mask[k]], predictions[mask[k]]),
                                    actuals[mask[k]]))]),
                  RInt(100))

\* ErrorObserver._check_mape on two aligned series, with the severity
\* _get_mape_severity gives their MAPE.
CheckMape ==
    \E predictions \in [1..2 -> MapePredictions], actuals \in MapeActuals :
        LET mape == mape_of(predictions, actuals)
        IN  /\ mape_call' = [called |-> TRUE, predictions |-> predictions,
                             actuals |-> actuals, mape |-> mape,
                             severity |-> IF mape = NoneNum THEN None
                                          ELSE get_mape_severity(mape),
                             errors |-> check_mape("f1", predictions, actuals)]
            /\ UNCHANGED <<observer_supabase, forecast_errors,
                           analyzed_predictions, analyze_call, analyze_result,
                           peak_call>>
            /\ UNCHANGED notObserver

\* Ten intervals at 1000 MW with one peak.  The actual peak is 3000 MW; the
\* predicted peak misses it by 0 to 1000 MW, at and next to each threshold.
PeakSteps == 10

PeakSeries(position, peak) ==
    [i \in 1..PeakSteps |-> IF i = position THEN peak ELSE RInt(1000)]

PredictedPeaks ==
    {RInt(3000), RInt(2850), RInt(2801), RInt(2800), RInt(2650), RInt(2601),
     RInt(2600), RInt(2300), RInt(2201), RInt(2200), RInt(4000)}

PredictedPeakPositions == {1, 2, 9, 10}

ActualPeakPositions == {1, 2, 10}

\* ErrorObserver._check_peak_miss on two aligned series, with the severity
\* _get_peak_severity gives the magnitude of the miss.
CheckPeakMiss ==
    \E pred_position \in PredictedPeakPositions,
       actual_position \in ActualPeakPositions,
       pred_peak \in PredictedPeaks :
        LET predictions == PeakSeries(pred_position, pred_peak)
            actuals == PeakSeries(actual_position, RInt(3000))
            peak_error_mw == RAbs(RSub(predictions[ArgMax(predictions)],
                                       actuals[ArgMax(actuals)]))
        IN  /\ peak_call' = [called |-> TRUE, predictions |-> predictions,
                             actuals |-> actuals,
                             timing_error_intervals |->
                                 Abs(ArgMax(predictions) - ArgMax(actuals)),
                             peak_error_mw |-> peak_error_mw,
                             by_magnitude |-> get_peak_severity(peak_error_mw),
                             errors |-> check_peak_miss("f1", predictions, actuals)]
            /\ UNCHANGED <<observer_supabase, forecast_errors,
                           analyzed_predictions, analyze_call, analyze_result,
                           mape_call>>
            /\ UNCHANGED notObserver

(***************************************************************************)
(* Forecast Adjuster (forecast_adjuster.py) behind get_forecast            *)
(* (api/forecast.py:88-115)                                                *)
(***************************************************************************)
\* Forecasts served in one run.
MaxAdjusts == 2

\* One entry of forecast["predictions"]: a dict, or a bare value.
DictPred(value) == [type |-> "dict", value |-> value]
FloatPred(x) == [type |-> "float", value |-> x]
StrPred(s) == [type |-> "str", value |-> s]

\* Base forecasts as adjust_forecast accepts them (Dict[str, Any]): two
\* intervals with quantiles, no predictions, a q10 of None, a point of None, a
\* bare number followed by text, a zero point without quantiles in a forecast
\* without the "metadata" key, a bare number alone, and an interval around a
\* zero point.
BaseForecasts ==
    {[predictions |->
         <<DictPred([timestamp |-> 1, point |-> RInt(100),
                     q10 |-> RInt(90), q90 |-> RInt(110)]),
           DictPred([timestamp |-> 2, point |-> RInt(200),
                     q10 |-> RInt(180), q90 |-> RInt(220)])>>,
      has_metadata |-> TRUE],
     [predictions |-> <<>>, has_metadata |-> TRUE],
     [predictions |->
         <<DictPred([timestamp |-> 1, point |-> RInt(100),
                     q10 |-> NoneNum, q90 |-> RInt(110)])>>,
      has_metadata |-> TRUE],
     [predictions |->
         <<DictPred([timestamp |-> 1, point |-> NoneNum,
                     q10 |-> RInt(90), q90 |-> RInt(110)])>>,
      has_metadata |-> TRUE],
     [predictions |-> <<FloatPred(RInt(100)), StrPred("n/a")>>,
      has_metadata |-> TRUE],
     [predictions |->
         <<DictPred([timestamp |-> 1, point |-> RInt(0)]),
           DictPred([timestamp |-> 2, value |-> RInt(100)])>>,
      has_metadata |-> FALSE],
     [predictions |-> <<FloatPred(RInt(100))>>, has_metadata |-> FALSE],
     [predictions |->
         <<DictPred([timestamp |-> 1, point |-> RInt(0),
                     q10 |-> RInt(-5), q90 |-> RInt(5)]),
           DictPred([timestamp |-> 2, point |-> RInt(50),
                     q10 |-> RInt(40), q90 |-> RInt(60)])>>,
      has_metadata |-> TRUE]}

\* What find_applicable_lessons returns in a run: nothing, one hit, two hits,
\* or a hit on the lesson whose adjustment_params column is null.
AdjustLookups ==
    {<<>>,
     <<[lesson_id |-> "L1", similarity |-> Rat(9, 10), llm_confidence |-> Rat(8, 10)]>>,
     <<[lesson_id |-> "L1", similarity |-> Rat(9, 10), llm_confidence |-> NoneNum],
       [lesson_id |-> "L2", similarity |-> Rat(7, 10), llm_confidence |-> Rat(9, 10)]>>,
     <<[lesson_id |-> "L3", similarity |-> Rat(9, 10), llm_confidence |-> Rat(8, 10)]>>}

\* Table generalized_lessons behind the adjuster.
AdjustLessons ==
    [l \in LessonIds |->
        CASE l = "L1" -> [is_active |-> TRUE,
                          adjustment_params |-> [adjustment_type |-> "peak",
                                                 direction |-> "down",
                                                 magnitude_pct |-> RInt(10)]]
          [] l = "L2" -> [is_active |-> TRUE,
                          adjustment_params |-> [adjustment_type |-> "bias",
                                                 direction |-> "up",
                                                 magnitude_pct |-> RInt(20)]]
          [] OTHER -> [is_active |-> TRUE, adjustment_params |-> NoRow]]

\* The same table after lesson L2 was deactivated and L3 deleted.
AdjustLessonsRetired ==
    [l \in LessonIds |->
        CASE l = "L1" -> AdjustLessons[l]
          [] l = "L2" -> [AdjustLessons[l] EXCEPT !.is_active = FALSE]
          [] OTHER -> NoRow]

IsDict(pred) == pred.type = "dict"

\* Lines 136-141: pred.get("point", pred.get("value", 0)), or float(pred).
point_of(pred) ==
    IF IsDict(pred)
    THEN GetOr(pred.value, "point", GetOr(pred.value, "value", RInt(0)))
    ELSE pred.value

point_predictions(predictions) ==
    [i \in 1..Len(predictions) |-> point_of(predictions[i])]

\* float(pred) raises ValueError on text (line 141).
extraction_raises(predictions) ==
    \E i \in 1..Len(predictions) : predictions[i].type = "str"

\* _log_forecast, lines 219-241: the series handed to log_forecast, built from
\* the dict entries only.
logged_predictions(predictions) ==
    LET entries == SelectSeq(predictions, IsDict)
        column(key, default) ==
            [i \in 1..Len(entries) |-> GetOr(entries[i].value, key, default)]
    IN  [timestamps |-> column("timestamp", ""),
         point |-> column("point", RInt(0)),
         q10 |-> column("q10", RInt(0)),
         q90 |-> column("q90", RInt(0))]

\* _find_applicable_rules (lines 251-275): any exception of the lookup or of
\* match_rules is caught and gives no rules.
find_applicable_rules(similar, lessons, lookup_raises) ==
    IF lookup_raises THEN [rules |-> <<>>, raised |-> "lookup"]
    ELSE IF similar = <<>> THEN [rules |-> <<>>, raised |-> "none"]
    ELSE IF match_raises(similar, lessons)
         THEN [rules |-> <<>>, raised |-> "match"]
         ELSE [rules |-> match_rules(similar, lessons), raised |-> "none"]

\* rule_engine.py:258-263 and 313: None * float raises TypeError, before any
\* audit row is written.
apply_raises(points) == \E i \in 1..Len(points) : points[i] = NoneNum

\* Lines 332-335: new_pred["q10"] * ratio raises TypeError on None.
rescale_raises(predictions) ==
    \E i \in 1..Len(predictions) :
        /\ IsDict(predictions[i])
        /\ \E k \in {"q10", "q90"} \cap DOMAIN predictions[i].value :
              predictions[i].value[k] = NoneNum

\* _apply_adjustments (lines 311-341): new prediction entries; the entries of
\* the base forecast are copied, never written.
apply_adjustments(predictions, result) ==
    LET adjusted_preds == result.adjusted_predictions
        original == result.original_predictions
        ratio(i) == IF original[i] # RInt(0)
                    THEN RDiv(adjusted_preds[i], original[i]) ELSE RInt(1)
        new_pred(i) ==
            [k \in DOMAIN predictions[i].value \cup {"point"} |->
                IF k = "point" THEN adjusted_preds[i]
                ELSE IF k \in {"q10", "q90"}
                     THEN RMul(predictions[i].value[k], ratio(i))
                     ELSE predictions[i].value[k]]
    IN  IF Len(predictions) # Len(adjusted_preds) THEN predictions
        ELSE [i \in 1..Len(predictions) |->
                 IF IsDict(predictions[i]) THEN DictPred(new_pred(i))
                 ELSE FloatPred(adjusted_preds[i])]

\* AdjustmentMetadata.to_dict (lines 43-62).
AdjustmentMetadata(adjusted, total_adjustment_pct, applied_rules, explanation, adjustment_confidence) ==
    [adjusted |-> adjusted,
     total_adjustment_pct |-> total_adjustment_pct,
     applied_rules_count |-> Len(applied_rules),
     explanation |-> explanation,
     adjustment_confidence |-> adjustment_confidence,
     applied_rules |-> applied_rules]

\* Lines 189-197: at most five of the applications, as dicts.
applied_rules_dicts(applications) ==
    [i \in 1..(IF Len(applications) < 5 THEN Len(applications) ELSE 5) |->
        [lesson_id |-> applications[i].lesson_id,
         adjustment_factor |-> applications[i].adjustment_factor,
         confidence |-> applications[i].match_confidence]]

\* dict[key] = value on the dict object d.
SetKey(d, key, value) ==
    [k \in DOMAIN d \cup {key} |-> IF k = key THEN value ELSE d[k]]

\* _add_metadata (lines 343-360): a shallow copy of the forecast with the
\* annotation; the metadata dict is the one of the forecast handed in, and it
\* is written in place.
add_metadata(ds, forecast, adjustment_metadata) ==
    LET ref == forecast.metadata
        flagged == SetKey(ds[ref], "context_adjusted", adjustment_metadata.adjusted)
        written == IF adjustment_metadata.adjusted
                   THEN SetKey(flagged, "adjustment_pct",
                               adjustment_metadata.total_adjustment_pct)
                   ELSE flagged
    IN  [response |-> [predictions |-> forecast.predictions,
                       metadata |-> ref,
                       adjustment_metadata |-> adjustment_metadata],
         dicts |-> IF ref = 0 THEN ds ELSE [ds EXCEPT ![ref] = written]]

\* A handler that leaves the annotation of the failed adjustment at adjusted.
unavailable_response_Adjusted(ds, forecast, error) ==
    [response |-> [predictions |-> forecast.predictions,
                   metadata |-> forecast.metadata,
                   adjustment_metadata |->
                       [adjusted |-> TRUE,
                        explanation |-> "Adjustment layer unavailable: " \o error]],
     dicts |-> ds]

\* get_forecast, lines 103-113: the except branch around adjust_forecast.
unavailable_response(ds, forecast, error) ==
    LET ds1 == IF forecast.metadata = 0 THEN Append(ds, <<>>) ELSE ds
    IN  [response |-> [predictions |-> forecast.predictions,
                       metadata |-> IF forecast.metadata = 0 THEN Len(ds1)
                                    ELSE forecast.metadata,
                       adjustment_metadata |->
                           [adjusted |-> FALSE,
                            explanation |-> "Adjustment layer unavailable: " \o error]],
         dicts |-> ds1]

\* str(e) of the exceptions the inputs of this model raise.
ValueErrorText == "could not convert string to float: 'n/a'"
TypeErrorText == "unsupported operand type(s) for *: 'NoneType' and 'float'"

InitAdjuster(enabled) ==
    /\ enable_adjustments = enabled
    /\ adjust_count = 0
    /\ adjust_call = NoCall
    /\ adjust_response = NoCall

\* get_forecast from the base forecast on (api/forecast.py:88-115), with the
\* whole of ForecastAdjuster.adjust_forecast (lines 113-202): the forecast is
\* logged, rules are looked up, matched and applied with their audit writes,
\* the intervals are rescaled and the annotation is attached; an exception
\* that leaves adjust_forecast is answered by the except branch of the
\* endpoint.  The services of the adjuster are constructed.
Adjust ==
    \E base \in base_forecasts, similar_contexts \in hit_lists :
    \E insert_raises, weather_raises, lookup_raises \in BOOLEAN :
    \E lesson_raises \in [1..Len(similar_contexts) -> BOOLEAN] :
        LET ds0 == IF base.has_metadata THEN Append(dicts, BaseMetadata) ELSE dicts
            forecast == [predictions |-> base.predictions,
                         metadata |-> IF base.has_metadata THEN Len(ds0) ELSE 0]
            predictions == forecast.predictions
            points == point_predictions(predictions)
            empty == predictions = <<>>
            extract_fails == ~empty /\ extraction_raises(predictions)
            logs == ~empty /\ ~extract_fails
            looks == logs /\ enable_adjustments
            \* _log_forecast (lines 204-249)
            ds1 == IF logs /\ forecast.metadata = 0 THEN Append(ds0, <<>>) ELSE ds0
            mref == IF forecast.metadata = 0 THEN Len(ds1) ELSE forecast.metadata
            forecast_id == next_forecast_id
            event == ForecastEvent(forecast_id, "SWISS_GRID", "v1",
                                   GetOr(ds1[mref], "horizon_hours", 24),
                                   logged_predictions(predictions), mref)
            to_database == logger_supabase /\ ~insert_raises
            buffered == log_fallback(lists, fallback_logs, forecast_id)
            \* find_applicable_lessons answers [] without a backend
            similar == IF engine_supabase THEN similar_contexts ELSE <<>>
            fetched(i) == /\ looks /\ ~lookup_raises /\ engine_supabase
                          /\ PassesHitFilters(similar_contexts[i])
            lessons == [i \in 1..Len(similar_contexts) |->
                          IF fetched(i)
                          THEN get_lesson(engine_supabase, generalized_lessons,
                                          similar_contexts[i].lesson_id,
                                          lesson_raises[i])
                          ELSE NoRow]
        IN
        /\ adjust_count < MaxAdjusts
        /\ insert_raises => logs /\ logger_supabase
        /\ weather_raises => looks
        /\ lookup_raises => looks
        /\ \A i \in 1..Len(similar_contexts) : lesson_raises[i] => fetched(i)
        /\ \E found \in {IF looks
                         THEN find_applicable_rules(similar, lessons, lookup_raises)
                         ELSE [rules |-> <<>>, raised |-> "none"]} :
           LET rules == found.rules
               applies == rules # <<>>
               apply_fails == applies /\ apply_raises(points)
               stores == applies /\ ~apply_fails
           IN
           \E outcomes \in [1..(IF stores THEN Len(rules) ELSE 0) -> StoreOutcomes] :
           \E result \in {IF stores THEN apply_rules(points, rules, forecast_id)
                          ELSE NoCall} :
             LET db == IF stores
                       THEN StoreApplications(engine_supabase,
                                [rows |-> rule_applications, stats |-> stats_updates,
                                 calls |-> stats_calls, raised |-> FALSE],
                                result.applied_rules, outcomes)
                       ELSE [rows |-> rule_applications, stats |-> stats_updates,
                             calls |-> stats_calls, raised |-> FALSE]
                 rescale_fails == stores /\ rescale_raises(predictions)
                 matching == looks /\ ~lookup_raises /\ similar # <<>>
                 raised == IF extract_fails THEN "extract"
                           ELSE IF found.raised # "none" THEN found.raised
                           ELSE IF apply_fails THEN "apply"
                           ELSE IF rescale_fails THEN "rescale"
                           ELSE "none"
                 no_change(explanation) ==
                     add_metadata(ds1, forecast,
                         AdjustmentMetadata(FALSE, RInt(0), <<>>, explanation, RInt(1)))
                 served ==
                     IF empty THEN no_change("")
                     ELSE IF extract_fails
                          THEN unavailable_response(ds1, forecast, ValueErrorText)
                     ELSE IF ~enable_adjustments
                          THEN no_change("Adjustments disabled by feature flag")
                     ELSE IF ~applies
                          THEN no_change("No applicable rules found for current context")
                     ELSE IF apply_fails \/ rescale_fails
                          THEN unavailable_response(ds1, forecast, TypeErrorText)
                     ELSE add_metadata(ds1,
                              [forecast EXCEPT
                                  !.predictions = apply_adjustments(predictions, result)],
                              AdjustmentMetadata(TRUE, result.total_adjustment_pct,
                                  applied_rules_dicts(result.applied_rules),
                                  result.explanation, result.confidence))
             IN
             /\ adjust_count' = adjust_count + 1
             /\ IF logs
                THEN /\ next_forecast_id' = forecast_id + 1
                     /\ events' = (forecast_id :> event) @@ events
                     /\ IF to_database
                        THEN /\ forecast_events' =
                                   Append(forecast_events, to_db_dict(event, ds1))
                             /\ UNCHANGED <<lists, fallback_logs>>
                        ELSE /\ lists' = buffered.lists
                             /\ fallback_logs' = buffered.fallback_logs
                             /\ UNCHANGED forecast_events
                     /\ log_history' = Append(log_history,
                            [forecast_id |-> forecast_id,
                             predictions |-> event.predictions,
                             metadata |-> ds1[mref],
                             route |-> IF to_database THEN "database" ELSE "fallback"])
                     /\ last_op' = [op |-> "log", forecast_id |-> forecast_id,
                                    route |-> IF to_database THEN "database"
                                              ELSE "fallback"]
                ELSE UNCHANGED <<next_forecast_id, events, forecast_events, lists,
                                 fallback_logs, log_history, last_op>>
             /\ dicts' = served.dicts
             /\ IF matching
                THEN /\ match_call' = [called |-> TRUE,
                                       similar_contexts |-> similar,
                                       lessons |-> lessons,
                                       raised |-> found.raised = "match"]
                     /\ matched' = IF found.raised = "match" THEN matched ELSE rules
                ELSE UNCHANGED <<match_call, matched>>
             /\ IF stores
                THEN /\ apply_call' = [called |-> TRUE, predictions |-> points,
                                       applicable_rules |-> rules,
                                       outcomes |-> outcomes]
                     /\ apply_result' = result
                ELSE UNCHANGED <<apply_call, apply_result>>
             /\ rule_applications' = db.rows
             /\ stats_updates' = db.stats
             /\ stats_calls' = db.calls
             /\ adjust_call' = [called |-> TRUE,
                                forecast |-> forecast,
                                logged |-> logs,
                                forecast_id |-> IF logs THEN forecast_id ELSE 0,
                                route |-> IF ~logs THEN "none"
                                          ELSE IF to_database THEN "database"
                                          ELSE "fallback",
                                weather_raises |-> weather_raises,
                                raised |-> raised,
                                applicable_rules |-> rules]
             /\ adjust_response' = served.response
             /\ UNCHANGED <<engine_supabase, generalized_lessons, rule_lists,
                            prediction_lists, hit_lists, reorder_call,
                            logger_supabase, prefilled,
                            flush_called, enable_adjustments, base_forecasts>>
             /\ UNCHANGED notAdjuster

(***************************************************************************)
(* LLM Reasoning Service (llm_reasoning.py)                                *)
(***************************************************************************)
max_retries == 3

\* A text is the sequence of the fragments it was formatted from; its length
\* is the sum of theirs.
StrLen(s) ==
    CASE s = "" -> 0
      [] s \in {"4", "5", "6", "8"} -> 1
      [] s \in {"% ", "up"} -> 2
      [] s \in {"bias", "down", "high", "peak", "ramp"} -> 4
      [] s \in {"drift", "scale", "ward "} -> 5
      [] s \in {"critical", "variance"} -> 8
      [] s \in {" severity", "peak_miss"} -> 9
      [] s \in {"mape_spike", "ramp_error"} -> 10
      [] s = " adjustment" -> 11
      [] s = " detected with " -> 15
      [] s = "Fallback analysis: " -> 19
      [] s = "Solar dip under overcast sky" -> 28
      [] s = "When overcast, lower the solar ramp" -> 35
      [] s = "When similar conditions occur, apply " -> 37

RECURSIVE TextLen(_)
TextLen(text) ==
    IF text = <<>> THEN 0 ELSE StrLen(Head(text)) + TextLen(Tail(text))

\* A JSON scalar of the provider's answer.
JNum(x) == [type |-> "number", value |-> x]
JStr(s) == [type |-> "string", text |-> s]

ErrorTypes == {"mape_spike", "peak_miss", "ramp_error", "bias", "variance", "drift"}
Severities == {"high", "critical"}

\* weather_context: None, or the dict of a context snapshot with the tags of
\* its "condition" text.
WeatherContexts == {NoRow, [condition |-> <<"normal">>],
                    [condition |-> <<"heatwave", "clear_sky">>],
                    [condition |-> <<"cold_snap">>]}

\* The arguments of analyze_error that its course depends on.
AnalyzedErrors == [error_type : ErrorTypes, severity : Severities,
                   weather_context : WeatherContexts]

FullAnswer(adjustment_type, magnitude_pct, confidence) ==
    [failure_cause |-> <<"Solar dip under overcast sky">>,
     context_signature |-> <<"overcast">>,
     generalized_rule |-> <<"When overcast, lower the solar ramp">>,
     adjustment_params |-> [adjustment_type |-> adjustment_type,
                            direction |-> "down",
                            magnitude_pct |-> magnitude_pct],
     confidence |-> confidence]

\* One attempt at the provider: generate_content_async (or response.text)
\* raises, or an answer text that is JSON or not.
Responses ==
    {[kind |-> "raises"],
     [kind |-> "text", json |-> FALSE],
     [kind |-> "text", json |-> TRUE, data |-> <<>>],
     [kind |-> "text", json |-> TRUE,
      data |-> FullAnswer("ramp", JNum(RInt(10)), JNum(Rat(8, 10)))],
     [kind |-> "text", json |-> TRUE,
      data |-> FullAnswer("ramp", JNum(RInt(20)), JNum(Rat(8, 10)))],
     [kind |-> "text", json |-> TRUE,
      data |-> FullAnswer("peak", JStr("high"), JNum(Rat(8, 10)))],
     [kind |-> "text", json |-> TRUE,
      data |-> [failure_cause |-> <<"Solar dip under overcast sky">>,
                context_signature |-> <<"overcast">>,
                generalized_rule |-> <<"When overcast, lower the solar ramp">>]]}

\* A validation whose magnitude check has no upper bound.
params_validate_Unbounded(params) ==
    /\ params.adjustment_type \in {"ramp", "peak", "bias", "variance", "scale"}
    /\ params.direction \in {"up", "down"}
    /\ RLe(RInt(0), params.magnitude_pct)

\* AdjustmentParams.validate (lines 46-57).
params_validate(params) ==
    /\ params.adjustment_type \in {"ramp", "peak", "bias", "variance", "scale"}
    /\ params.direction \in {"up", "down"}
    /\ RLe(RInt(0), params.magnitude_pct)
    /\ RLe(params.magnitude_pct, RInt(15))

\* LLMAnalysisResult.validate (lines 69-81).
validate(result) ==
    /\ ~(result.failure_cause = <<>> \/ TextLen(result.failure_cause) < 10)
    /\ ~(result.context_signature = <<>> \/ Len(result.context_signature) = 0)
    /\ ~(result.generalized_rule = <<>> \/ TextLen(result.generalized_rule) < 10)
    /\ RLe(RInt(0), result.confidence) /\ RLe(result.confidence, RInt(1))
    /\ params_validate(result.adjustment_params)

\* float(x) of a JSON scalar raises on text that is no number.
float_raises(x) == x.type = "string"

\* _parse_response (lines 282-322): None when the text is no JSON or a field
\* cannot be converted, else the result with the defaults for missing keys.
parse_response(response) ==
    IF ~response.json THEN NoRow
    ELSE LET data == response.data
             adj_params == GetOr(data, "adjustment_params", <<>>)
             magnitude_pct == GetOr(adj_params, "magnitude_pct", JNum(RInt(5)))
             confidence == GetOr(data, "confidence", JNum(Rat(5, 10)))
         IN  IF float_raises(magnitude_pct) \/ float_raises(confidence) THEN NoRow
             ELSE [failure_cause |-> GetOr(data, "failure_cause", <<>>),
                   context_signature |-> GetOr(data, "context_signature", <<>>),
                   generalized_rule |-> GetOr(data, "generalized_rule", <<>>),
                   adjustment_params |->
                       [adjustment_type |-> GetOr(adj_params, "adjustment_type", "scale"),
                        direction |-> GetOr(adj_params, "direction", "up"),
                        magnitude_pct |-> magnitude_pct.value],
                   confidence |-> confidence.value]

\* A fallback that answers scale/up/5 whatever the error type.
fallback_adjustment_Flat(error_type) == <<"scale", "up", 5>>

\* adjustment_map.get(error_type, ("scale", "up", 5)) (lines 345-355).
fallback_adjustment(error_type) ==
    CASE error_type = "mape_spike" -> <<"scale", "up", 5>>
      [] error_type = "peak_miss" -> <<"peak", "up", 8>>
      [] error_type = "ramp_error" -> <<"ramp", "up", 6>>
      [] error_type = "bias" -> <<"bias", "up", 4>>
      [] error_type = "variance" -> <<"variance", "up", 5>>
      [] OTHER -> <<"scale", "up", 5>>

\* str(magnitude) of the magnitudes of the map.
Digits(k) == CASE k = 4 -> "4" [] k = 5 -> "5" [] k = 6 -> "6" [] k = 8 -> "8"

\* "word" in condition, on the tags the condition text is joined from.
InCondition(word, condition) ==
    \E i \in 1..Len(condition) :
        \/ condition[i] = word
        \/ word = "cold" /\ condition[i] = "cold_snap"

\* _generate_fallback_analysis (lines 337-376).
generate_fallback_analysis(error_type, severity, weather_context) ==
    LET adjustment == fallback_adjustment(error_type)
        adj_type == adjustment[1]
        direction == adjustment[2]
        magnitude == adjustment[3]
        condition == GetOr(weather_context, "condition", <<>>)
        tags == IF weather_context = NoRow THEN <<>>
                ELSE (IF InCondition("heatwave", condition)
                      THEN <<"heatwave">> ELSE <<>>)
                     \o (IF InCondition("cold", condition)
                         THEN <<"cold_snap">> ELSE <<>>)
    IN  [failure_cause |-> <<"Fallback analysis: ", error_type,
                             " detected with ", severity, " severity">>,
         context_signature |-> <<error_type>> \o tags,
         generalized_rule |-> <<"When similar conditions occur, apply ",
                                Digits(magnitude), "% ", direction, "ward ",
                                adj_type, " adjustment">>,
         adjustment_params |-> [adjustment_type |-> adj_type,
                                direction |-> direction,
                                magnitude_pct |-> RInt(magnitude)],
         confidence |-> Rat(5, 10)]

\* Lines 266-276: an attempt is accepted when the provider answered, the
\* answer parsed and the result validates.
accepted(response) ==
    /\ response.kind = "text"
    /\ parse_response(response) # NoRow
    /\ validate(parse_response(response))

\* analyze_error (lines 243-280) against the provider's answers, in order.
analyze_error(model, error_type, severity, weather_context, responses) ==
    LET hits == {i \in 1..max_retries : accepted(responses[i])}
        first == CHOOSE i \in hits : \A j \in hits : i <= j
    IN  IF ~model
        THEN [attempts |-> <<>>,
              result |-> generate_fallback_analysis(error_type, severity,
                                                    weather_context)]
        ELSE IF hits # {}
        THEN [attempts |-> SubSeq(responses, 1, first),
              result |-> parse_response(responses[first])]
        ELSE [attempts |-> responses,
              result |-> generate_fallback_analysis(error_type, severity,
                                                    weather_context)]

InitLLM(model) ==
    /\ llm_model = model
    /\ llm_call = NoCall
    /\ llm_result = NoCall
    /\ validate_call = NoCall
    /\ llm_task = [pc |-> "idle"]

\* LLMReasoningService.analyze_error; the provider's answers past the accepted
\* one are never asked for.
AnalyzeError ==
    \E error \in llm_errors, responses \in [1..max_retries -> Responses] :
      \E done \in {analyze_error(llm_model, error.error_type, error.severity,
                                 error.weather_context, responses)} :
        /\ \A i \in 1..max_retries :
              i > Len(done.attempts) => responses[i] = [kind |-> "raises"]
        /\ llm_call' = [called |-> TRUE, error_type |-> error.error_type,
                        severity |-> error.severity,
                        weather_context |-> error.weather_context,
                        attempts |-> done.attempts]
        /\ llm_result' = done.result
        /\ UNCHANGED <<llm_model, llm_errors, validate_call, llm_task>>
        /\ UNCHANGED notLLM

\* analyze_error as a coroutine.  Lines 243-245 and 263-266: without a model
\* the fallback is returned at once; otherwise the first attempt awaits
\* generate_content_async(prompt), which is called with no timeout.
AnalyzeErrorBegin ==
    /\ llm_task.pc = "idle"
    /\ \E error \in llm_errors :
          IF ~llm_model
          THEN /\ llm_task' = [pc |-> "returned", error |-> error, attempt |-> 0,
                               attempts |-> <<>>]
               /\ llm_call' = [called |-> TRUE, error_type |-> error.error_type,
                               severity |-> error.severity,
                               weather_context |-> error.weather_context,
                               attempts |-> <<>>]
               /\ llm_result' = generate_fallback_analysis(error.error_type,
                                     error.severity, error.weather_context)
          ELSE /\ llm_task' = [pc |-> "awaiting", error |-> error, attempt |-> 1,
                               attempts |-> <<>>]
               /\ UNCHANGED <<llm_call, llm_result>>
    /\ UNCHANGED <<llm_model, llm_errors, validate_call>>
    /\ UNCHANGED notLLM

\* The provider completes the pending call: it answers or the call raises.
\* Nothing in analyze_error makes this happen.
ProviderCompletes ==
    /\ llm_task.pc = "awaiting"
    /\ \E response \in Responses :
          llm_task' = [llm_task EXCEPT !.pc = "resumed",
                                       !.attempts = Append(@, response)]
    /\ UNCHANGED <<llm_model, llm_errors, llm_call, llm_result, validate_call>>
    /\ UNCHANGED notLLM

\* Lines 267-280: the coroutine resumes with the answer or the exception;
\* it returns the result, starts the next attempt, or returns the fallback
\* after the last one.
ResumeAttempt ==
    /\ llm_task.pc = "resumed"
    /\ LET error == llm_task.error
           response == llm_task.attempts[Len(llm_task.attempts)]
           returns == accepted(response) \/ llm_task.attempt = max_retries
           call == [called |-> TRUE, error_type |-> error.error_type,
                    severity |-> error.severity,
                    weather_context |-> error.weather_context,
                    attempts |-> llm_task.attempts]
       IN  IF returns
           THEN /\ llm_task' = [llm_task EXCEPT !.pc = "returned"]
                /\ llm_call' = call
                /\ llm_result' =
                       IF accepted(response) THEN parse_response(response)
                       ELSE generate_fallback_analysis(error.error_type,
                                error.severity, error.weather_context)
           ELSE /\ llm_task' = [llm_task EXCEPT !.pc = "awaiting",
                                                !.attempt = @ + 1]
                /\ UNCHANGED <<llm_call, llm_result>>
    /\ UNCHANGED <<llm_model, llm_errors, validate_call>>
    /\ UNCHANGED notLLM

\* AdjustmentParams as a caller or a parsed answer may hold them.
ParamsDomain ==
    [adjustment_type : {"ramp", "peak", "bias", "variance", "scale", "shift", ""},
     direction : {"up", "down", "sideways"},
     magnitude_pct : {RInt(-1), RInt(0), RInt(5), RInt(15), Rat(1501, 100),
                      RInt(20)}]

\* The other fields of an LLMAnalysisResult: in bounds, or a failure_cause
\* that is empty.
ResultFrames ==
    {[failure_cause |-> <<"Solar dip under overcast sky">>,
      context_signature |-> <<"overcast">>,
      generalized_rule |-> <<"When overcast, lower the solar ramp">>,
      confidence |-> Rat(8, 10)],
     [failure_cause |-> <<>>,
      context_signature |-> <<"overcast">>,
      generalized_rule |-> <<"When overcast, lower the solar ramp">>,
      confidence |-> Rat(8, 10)]}

\* AdjustmentParams.validate() on the params of a result and
\* LLMAnalysisResult.validate() on the result itself.
Validate ==
    \E params \in ParamsDomain, rest \in ResultFrames :
        LET result == [failure_cause |-> rest.failure_cause,
                       context_signature |-> rest.context_signature,
                       generalized_rule |-> rest.generalized_rule,
                       adjustment_params |-> params,
                       confidence |-> rest.confidence]
        IN  /\ validate_call' = [called |-> TRUE, result |-> result,
                                 params_valid |-> params_validate(params),
                                 result_valid |-> validate(result)]
            /\ UNCHANGED <<llm_model, llm_errors, llm_call, llm_result, llm_task>>
            /\ UNCHANGED notLLM

(***************************************************************************)
(* Manual analysis: trigger_error_analysis (api/learning.py:204-285)       *)
(***************************************************************************)
\* Lessons stored in one run.
MaxStoredLessons == 2

\* get_pending_analysis (error_observer.py:423-441): the ids of the rows with
\* analysis_triggered set and analysis_completed_at null; the id of a row is
\* its position in the table.
get_pending_analysis(supabase, rows) ==
    IF ~supabase THEN {}
    ELSE {i \in 1..Len(rows) :
             rows[i].analysis_triggered /\ ~rows[i].analysis_completed}

\* store_lesson (llm_reasoning.py:378-414): the lesson id, or None when there
\* is no backend, the insert raised or it returned no row.
store_lesson(supabase, lessons, context_snapshot_id, analysis, insert_fails) ==
    IF ~supabase \/ insert_fails
    THEN [lessons |-> lessons, lesson_id |-> NoRow]
    ELSE [lessons |-> Append(lessons,
                             [context_snapshot_id |-> context_snapshot_id,
                              adjustment_params |-> analysis.adjustment_params]),
          lesson_id |-> [id |-> Len(lessons) + 1]]

\* Where a request can end before the lesson is stored, and what the two
\* writes after the analysis can do.
TriggerCourses ==
    [fetch : {"found", "raises"}, snapshot : {"created", "none"},
     insert_fails : BOOLEAN, update_raises : BOOLEAN]

\* POST /analyze-error/{error_id}, with the provider not configured: the
\* analysis is the fallback analysis.
TriggerErrorAnalysis ==
    \E error_id \in 1..(Len(forecast_errors) + 1), course \in TriggerCourses,
       weather_context \in {NoRow, [condition |-> <<"heatwave", "clear_sky">>]} :
      LET supabase == observer_supabase
          found == supabase /\ course.fetch = "found"
                   /\ error_id <= Len(forecast_errors)
          snapshot == found /\ course.snapshot = "created"
          error == forecast_errors[error_id]
          analysis == analyze_error(llm_model, error.error_type, error.severity,
                                    weather_context,
                                    [i \in 1..max_retries |-> [kind |-> "raises"]]).result
          stored == store_lesson(supabase, stored_lessons, error_id, analysis,
                                 course.insert_fails)
          marked == snapshot /\ ~course.update_raises
          status == IF ~supabase THEN 500
                    ELSE IF ~found THEN (IF course.fetch = "raises" THEN 500 ELSE 404)
                    ELSE IF ~snapshot THEN 500
                    ELSE IF course.update_raises THEN 500
                    ELSE 200
      IN  /\ ~llm_model
          /\ course.fetch = "raises" => supabase
          /\ course.snapshot = "none" => found
          /\ course.insert_fails => snapshot
          /\ course.update_raises => snapshot
          /\ snapshot => Len(stored.lessons) <= MaxStoredLessons
          /\ stored_lessons' = IF snapshot THEN stored.lessons ELSE stored_lessons
          /\ forecast_errors' =
                IF marked
                THEN [forecast_errors EXCEPT ![error_id].analysis_completed = TRUE]
                ELSE forecast_errors
          /\ trigger_call' = [called |-> TRUE, error_id |-> error_id,
                              course |-> course, status |-> status,
                              pending_before |->
                                  get_pending_analysis(supabase, forecast_errors),
                              lesson_id |-> IF snapshot THEN stored.lesson_id
                                            ELSE NoRow]
          /\ UNCHANGED <<observer_supabase, analyzed_predictions, analyze_call,
                         analyze_result, mape_call, peak_call>>
          /\ UNCHANGED notLearning

(***************************************************************************)
(* Specifications                                                          *)
(***************************************************************************)
\* The components a specification does not drive stay as constructed.
IdleEngine ==
    /\ InitEngine(FALSE, {[l \in LessonIds |-> NoRow]})
    /\ rule_lists = {}
    /\ prediction_lists = {}
    /\ hit_lists = {}

IdleLogger == InitLogger(FALSE, 0) /\ IdleThreads

IdleObserver == InitObserver(FALSE) /\ analyzed_predictions = {}

IdleAdjuster == InitAdjuster(TRUE) /\ base_forecasts = {}

IdleLLM == InitLLM(FALSE) /\ llm_errors = {}

\* apply_rules as the unit tests drive it: no backend, one series and one rule
\* list per run, any rules.
InitRules ==
    /\ InitEngine(FALSE, {[l \in LessonIds |-> NoRow]})
    /\ \E l \in SeqsUpTo(RuleDomain, MaxRules) : rule_lists = {l}
    /\ \E p \in PredictionLists : prediction_lists = {p}
    /\ hit_lists = {}
    /\ IdleLogger
    /\ IdleObserver
    /\ IdleAdjuster
    /\ IdleLLM
NextRules == ApplyRules
SpecRules == InitRules /\ [][NextRules]_vars

\* apply_rules with and without the audit table behind it, one series and
\* one rule list per run.
InitApply ==
    /\ \E supabase \in BOOLEAN :
          InitEngine(supabase, {[l \in LessonIds |-> NoRow]})
    /\ \E l \in SeqsUpTo(AuditedRules, MaxRules) : rule_lists = {l}
    /\ \E p \in PredictionLists : prediction_lists = {p}
    /\ hit_lists = {}
    /\ IdleLogger
    /\ IdleObserver
    /\ IdleAdjuster
    /\ IdleLLM
NextApply == ApplyRules
SpecApply == InitApply /\ [][NextApply]_vars

\* apply_rules on reordered rule lists, as the unit tests drive it.
InitFusion ==
    /\ InitEngine(FALSE, {[l \in LessonIds |-> NoRow]})
    /\ \E l \in SeqsUpTo(FusedRules, MaxFused) : rule_lists = {l}
    /\ \E p \in PredictionLists : prediction_lists = {p}
    /\ hit_lists = {}
    /\ IdleLogger
    /\ IdleObserver
    /\ IdleAdjuster
    /\ IdleLLM
NextFusion == ApplyReordered
SpecFusion == InitFusion /\ [][NextFusion]_vars

\* match_rules against a lesson store, one similarity search per run.
InitMatch ==
    /\ InitEngine(TRUE, LessonTables)
    /\ \E h \in SeqsUpTo(Hits, MaxHits) : hit_lists = {h}
    /\ rule_lists = {}
    /\ prediction_lists = {}
    /\ IdleLogger
    /\ IdleObserver
    /\ IdleAdjuster
    /\ IdleLLM
NextMatch == MatchRules
SpecMatch == InitMatch /\ [][NextMatch]_vars

\* The logger driven call by call from a fresh process, with and without a
\* backend.
InitSeqLogger ==
    /\ \E supabase \in BOOLEAN : InitLogger(supabase, 0)
    /\ IdleThreads
    /\ IdleEngine
    /\ IdleObserver
    /\ IdleAdjuster
    /\ IdleLLM
NextLogger == LogForecast \/ GetForecastById \/ FlushFallbackLogs
SpecLogger == InitSeqLogger /\ [][NextLogger]_vars

\* Sequences of log_forecast calls and reads, from an empty buffer or from one
\* just under the cap.
InitFallback ==
    /\ \E supabase \in BOOLEAN, count \in PrefillCounts :
          InitLogger(supabase, count)
    /\ IdleThreads
    /\ IdleEngine
    /\ IdleObserver
    /\ IdleAdjuster
    /\ IdleLLM
NextFallback == LogForecast \/ GetForecastById
SpecFallback == InitFallback /\ [][NextFallback]_vars

\* Two threads calling log_forecast and flush_fallback_logs on the singleton:
\* with a backend from an empty buffer, without one from a full buffer.
InitThreads ==
    /\ \/ InitLogger(TRUE, 0)
       \/ InitLogger(FALSE, MAX_FALLBACK_LOGS)
    /\ IdleThreads
    /\ IdleEngine
    /\ IdleObserver
    /\ IdleAdjuster
    /\ IdleLLM
NextThreads ==
    \E t \in Threads :
        \/ ThreadLogStart(t)
        \/ ThreadLogLoad(t)
        \/ ThreadLogAppend(t)
        \/ ThreadLogCheck(t)
        \/ ThreadLogSlice(t)
        \/ ThreadLogStore(t)
        \/ ThreadFlushStart(t)
        \/ ThreadFlushNext(t)
        \/ ThreadFlushAssign(t)
SpecThreads == InitThreads /\ [][NextThreads]_vars

\* analyze_forecast called again and again on the forecasts of one run, with
\* and without a backend.
InitAnalyze ==
    /\ \E supabase \in BOOLEAN : InitObserver(supabase)
    /\ \E p \in AnalyzedPredictions : analyzed_predictions = {p}
    /\ IdleEngine
    /\ IdleLogger
    /\ IdleAdjuster
    /\ IdleLLM
NextObserver == AnalyzeForecast
SpecObserver == InitAnalyze /\ [][NextObserver]_vars

\* Errors are detected and then analysed on request.
\* Requests for manual analysis against the table as one analyze_forecast
\* call on a forecast of two steps left it, with and without a backend.
InitLearning ==
    /\ \E supabase \in BOOLEAN, actual_values \in ActualValues :
          LET predictions == [point |-> <<RInt(100), RInt(100)>>]
              detected == detect_errors("f1", predictions, actual_values)
              outcomes == [i \in 1..Len(detected.errors) |->
                              [insert_raises |-> FALSE, update_raises |-> FALSE]]
          IN  /\ observer_supabase = supabase
              /\ forecast_errors =
                     analyze_forecast(supabase, <<>>, detected, outcomes).rows
    /\ analyzed_predictions = {}
    /\ analyze_call = NoCall
    /\ analyze_result = <<>>
    /\ mape_call = NoCall
    /\ peak_call = NoCall
    /\ trigger_call = NoCall
    /\ stored_lessons = <<>>
    /\ IdleEngine
    /\ IdleLogger
    /\ IdleAdjuster
    /\ IdleLLM
NextLearning == TriggerErrorAnalysis
SpecLearning == InitLearning /\ [][NextLearning]_vars

\* _check_mape called on series of any error.
InitMape ==
    /\ IdleObserver
    /\ IdleEngine
    /\ IdleLogger
    /\ IdleAdjuster
    /\ IdleLLM
NextMape == CheckMape
SpecMape == InitMape /\ [][NextMape]_vars

\* _check_peak_miss on series of ten intervals.
NextPeak == CheckPeakMiss
SpecPeak == InitMape /\ [][NextPeak]_vars

\* Forecasts served through the adjuster, one base forecast and one lookup
\* result per run, with the backend configured for every service or for none.
InitAdjust ==
    /\ \E supabase \in BOOLEAN :
          /\ InitEngine(supabase, {AdjustLessons, AdjustLessonsRetired})
          /\ InitLogger(supabase, 0)
    /\ \E enabled \in BOOLEAN : InitAdjuster(enabled)
    /\ \E f \in BaseForecasts : base_forecasts = {f}
    /\ \E h \in AdjustLookups : hit_lists = {h}
    /\ rule_lists = {}
    /\ prediction_lists = {}
    /\ IdleThreads
    /\ IdleObserver
    /\ IdleLLM
NextAdjust == Adjust
SpecAdjust == InitAdjust /\ [][NextAdjust]_vars

\* analyze_error called again and again, with and without a provider.
InitReasoning ==
    /\ \E model \in BOOLEAN : InitLLM(model)
    /\ \E e \in AnalyzedErrors : llm_errors = {e}
    /\ IdleEngine
    /\ IdleLogger
    /\ IdleObserver
    /\ IdleAdjuster
NextLLM == AnalyzeError
SpecLLM == InitReasoning /\ [][NextLLM]_vars

\* One analyze_error coroutine against the provider.  The event loop runs
\* the coroutine whenever it can run; the provider owes nothing.
NextProvider ==
    \/ AnalyzeErrorBegin
    \/ ProviderCompletes
    \/ ResumeAttempt
SpecProvider ==
    /\ InitReasoning
    /\ [][NextProvider]_vars
    /\ WF_vars(AnalyzeErrorBegin)
    /\ WF_vars(ResumeAttempt)

\* validate() called on results of any content.
InitValidate ==
    /\ IdleLLM
    /\ IdleEngine
    /\ IdleLogger
    /\ IdleObserver
    /\ IdleAdjuster
NextValidate == Validate
SpecValidate == InitValidate /\ [][NextValidate]_vars

(***************************************************************************)
(* Rule Engine: properties                                                 *)
(***************************************************************************)
\* a is o times a factor in [0.85, 1.15].
WithinSafetyFactor(o, a) ==
    IF o.n = 0 THEN a.n = 0
    ELSE /\ RLe(Rat(85, 100), RDiv(a, o))
         /\ RLe(RDiv(a, o), Rat(115, 100))

\* C1: for every non-empty rule list handed to apply_rules, whatever the
\* magnitudes (above 15 or below 0 included), confidences and similarities,
\* total_adjustment_pct lies in [-15, +15] and every adjusted prediction is
\* its original times a factor in [0.85, 1.15].
C1_FusedAdjustmentWithinCeiling ==
    (apply_call.called /\ apply_call.applicable_rules # <<>>) =>
        /\ RLe(RInt(-15), apply_result.total_adjustment_pct)
        /\ RLe(apply_result.total_adjustment_pct, RInt(15))
        /\ Len(apply_result.adjusted_predictions) = Len(apply_call.predictions)
        /\ \A i \in 1..Len(apply_call.predictions) :
              WithinSafetyFactor(apply_call.predictions[i],
                                 apply_result.adjusted_predictions[i])

\* C1 witness: a call with an out-of-range magnitude whose fused adjustment
\* sits on the ceiling and changed a prediction.
C1_Witness ==
    /\ apply_call.called
    /\ \E i \in 1..Len(apply_call.applicable_rules) :
          apply_call.applicable_rules[i].magnitude_pct = RInt(-20)
    /\ apply_result.total_adjustment_pct = RInt(-15)
    /\ apply_call.predictions # <<>>
    /\ apply_result.adjusted_predictions[1] = RInt(85)

\* The four filters as the specification words them, on hit i of the last call.
C6_PassesStatedFilters(i) ==
    LET hit == match_call.similar_contexts[i]
        lesson == match_call.lessons[i]
    IN  /\ hit.lesson_id # None
        /\ ~RLt(hit.similarity, Rat(6, 10))
        /\ ~(hit.llm_confidence # NoneNum /\ RLt(hit.llm_confidence, Rat(5, 10)))
        /\ lesson # NoRow
        /\ "is_active" \in DOMAIN lesson
        /\ lesson.is_active

\* C6: match_rules returns exactly the hits that pass all four filters: a hit
\* with no lesson_id, similarity below 0.6, a confidence of any value below
\* 0.5, or a missing or inactive lesson yields no rule, every other hit yields
\* one ApplicableRule.
C6_MatchKeepsExactlyFilteredHits ==
    match_call.called =>
        LET n == Len(match_call.similar_contexts)
            passing == {i \in 1..n : C6_PassesStatedFilters(i)}
        IN  /\ Len(matched) = Cardinality(passing)
            /\ \A i \in (1..n) \ passing :
                  ~\E k \in 1..Len(matched) :
                      /\ matched[k].lesson_id = match_call.similar_contexts[i].lesson_id
                      /\ matched[k].context_similarity
                            = match_call.similar_contexts[i].similarity
                      /\ \A j \in passing :
                            match_call.similar_contexts[j]
                               # match_call.similar_contexts[i]


(***************************************************************************)
(* Forecast Logger: properties                                             *)
(***************************************************************************)
\* The forecast ids in the fallback buffer, oldest first.
Buffered == lists[fallback_logs]

\* The ids of the events that went to the buffer, in arrival order.
FallbackArrivals ==
    LET fell_back(h) == h.route = "fallback"
        logged == SelectSeq(log_history, fell_back)
    IN  [i \in 1..prefilled |-> i]
           \o [i \in 1..Len(logged) |-> logged[i].forecast_id]

\* C8: a log() call whose event could not be persisted (no backend, or the
\* insert raised) returns a new id and leaves its event as the newest entry of
\* the fallback buffer; the buffer never holds more than 1000 events, and as
\* long as only log() calls have run it is exactly the most recent fallback
\* events in arrival order, the oldest dropped first.
C8_FallbackBufferCappedFifo ==
    /\ (last_op.op = "log" /\ last_op.route = "fallback") =>
          /\ last_op.forecast_id > prefilled
          /\ \A i \in 1..(Len(log_history) - 1) :
                log_history[i].forecast_id # last_op.forecast_id
          /\ Buffered # <<>>
          /\ Buffered[Len(Buffered)] = last_op.forecast_id
          /\ event_of(events, last_op.forecast_id).predictions
                = log_history[Len(log_history)].predictions
    /\ Len(Buffered) <= 1000
    /\ ~flush_called => Buffered = LastN(FallbackArrivals, 1000)

\* C8 witness: the insert of a log() call raised, its event is the newest of a
\* full buffer and the oldest buffered event was dropped for it.
C8_Witness ==
    /\ logger_supabase
    /\ last_op.op = "log"
    /\ last_op.route = "fallback"
    /\ ~flush_called
    /\ Len(Buffered) = 1000
    /\ Buffered[1] = 2
    /\ Buffered[1000] = last_op.forecast_id

\* The event of forecast_id is still held: its row is in the table or it is
\* in the buffer.
StillHeld(forecast_id) ==
    \/ \E i \in 1..Len(forecast_events) :
          forecast_events[i].forecast_id = forecast_id
    \/ \E i \in 1..Len(Buffered) : Buffered[i] = forecast_id

\* C4: a get_by_id whose query did not fail, for the id of an earlier log()
\* whose event was persisted or is still buffered, yields an event with the
\* predictions that were passed to log().
C4_LoggedEventReadBack ==
    (last_op.op = "get" /\ ~last_op.query_raises) =>
        \A i \in 1..Len(log_history) :
            (/\ log_history[i].forecast_id = last_op.forecast_id
             /\ StillHeld(last_op.forecast_id)) =>
                /\ last_op.result # NoRow
                /\ last_op.result.predictions = log_history[i].predictions


\* No thread is inside a ForecastLogger call.
Quiescent == \A t \in Threads : pc[t] = "idle"

\* C9: whatever the interleaving of concurrent log() and flush() calls, once
\* the calls have returned the buffer holds at most 1000 events, and every
\* event that went to the buffer is still in it or was persisted, unless the
\* buffer is full (the event may then have been evicted at the cap).
C9_NoBufferedEventLost ==
    Quiescent =>
        /\ Len(Buffered) <= 1000
        /\ Len(Buffered) < 1000 =>
              \A i \in 1..Len(FallbackArrivals) :
                  StillHeld(FallbackArrivals[i])


(***************************************************************************)
(* Error Observer: properties                                              *)
(***************************************************************************)
\* C3: after any sequence of analyze() calls, repeated calls for the same
\* forecast_event_id included, every error whose analysis_triggered is true,
\* returned object or persisted row, has severity high or critical.
C3_TriggeredOnlyHighOrCritical ==
    /\ \A i \in 1..Len(forecast_errors) :
          forecast_errors[i].analysis_triggered =>
              forecast_errors[i].severity \in {"high", "critical"}
    /\ \A i \in 1..Len(analyze_result) :
          analyze_result[i].analysis_triggered =>
              analyze_result[i].severity \in {"high", "critical"}

\* C7: analyze() on empty predictions or empty actuals returns [] and
\* persists nothing, and a call in which an exception occurred, in a check or
\* in persistence, returns an empty list.
C7_ExceptionYieldsNoErrors ==
    analyze_call.called =>
        /\ (analyze_call.predictions.point = <<>>
               \/ analyze_call.actual_values = <<>>) =>
              /\ analyze_result = <<>>
              /\ forecast_errors = analyze_call.rows_before
        /\ (\/ analyze_call.left = "exception"
            \/ \E i \in 1..Len(analyze_call.outcomes) :
                  \/ analyze_call.outcomes[i].insert_raises
                  \/ analyze_call.outcomes[i].update_raises) =>
              analyze_result = <<>>

(***************************************************************************)
(* Forecast Adjuster: properties                                           *)
(***************************************************************************)
\* The caller received the predictions of the base forecast, marked as not
\* adjusted.
BaseForecastReturned ==
    /\ adjust_response.predictions = adjust_call.forecast.predictions
    /\ adjust_response.adjustment_metadata.adjusted = FALSE

UnavailableExplanations ==
    {"Adjustment layer unavailable: " \o e : e \in {ValueErrorText, TypeErrorText}}

C5_LoggedEventNeverMutated ==
    \A i \in 1..Len(log_history) :
        LET logged == log_history[i]
        IN  /\ (\E k \in 1..Len(Buffered) : Buffered[k] = logged.forecast_id) =>
                  /\ asdict(event_of(events, logged.forecast_id), dicts).predictions
                        = logged.predictions
                  /\ asdict(event_of(events, logged.forecast_id), dicts).metadata
                        = logged.metadata
            /\ \A k \in 1..Len(forecast_events) :
                  forecast_events[k].forecast_id = logged.forecast_id =>
                      /\ forecast_events[k].predictions = logged.predictions
                      /\ forecast_events[k].metadata = logged.metadata

SchemaComplete(data) ==
    /\ {"failure_cause", "context_signature", "generalized_rule",
        "adjustment_params", "confidence"} \subseteq DOMAIN data
    /\ {"adjustment_type", "direction", "magnitude_pct"}
          \subseteq DOMAIN data.adjustment_params

\* The last attempt of the call was accepted: the result is the provider's.
ProviderDerived ==
    /\ llm_call.called
    /\ llm_call.attempts # <<>>
    /\ accepted(llm_call.attempts[Len(llm_call.attempts)])

\* C11: analyze_error returns a provider-derived result only if the provider's
\* own output holds failure_cause, context_signature, generalized_rule,
\* adjustment_params (type, direction, magnitude_pct) and confidence; an
\* output that omits one of them is never completed with defaults.
C11_OnlySchemaCompleteAccepted ==
    ProviderDerived =>
        LET answer == llm_call.attempts[Len(llm_call.attempts)]
        IN  /\ SchemaComplete(answer.data)
            /\ llm_result.adjustment_params.magnitude_pct
                  = answer.data.adjustment_params.magnitude_pct.value
            /\ llm_result.confidence = answer.data.confidence.value

\* The tags ANALYSIS_PROMPT allows in a context signature.
TagVocabulary ==
    {"heatwave", "cold_snap", "weekday", "weekend", "morning", "afternoon",
     "evening", "night", "holiday", "solar_dip", "solar_peak", "wind_high",
     "wind_low", "overcast", "clear_sky", "maintenance", "grid_stress"}

\* C12: every result of analyze_error, provider-derived or fallback, has a
\* non-empty context_signature whose tags all belong to the fixed vocabulary.
C12_SignatureFromVocabulary ==
    llm_call.called =>
        /\ llm_result.context_signature # <<>>
        /\ \A i \in 1..Len(llm_result.context_signature) :
              llm_result.context_signature[i] \in TagVocabulary

C14_NoRulesNoChange ==
    (apply_call.called /\ apply_call.applicable_rules = <<>>) =>
        /\ Len(apply_result.adjusted_predictions) = Len(apply_call.predictions)
        /\ \A i \in 1..Len(apply_call.predictions) :
              apply_result.adjusted_predictions[i] = apply_call.predictions[i]
        /\ apply_result.total_adjustment_pct = RInt(0)
        /\ apply_result.confidence = RInt(1)
        /\ apply_result.explanation = "No applicable rules found"
        /\ apply_result.applied_rules = <<>>
        /\ rule_applications = <<>>
        /\ \A l \in LessonIds : stats_updates[l] = 0

\* C14 witness: an empty rule list applied to a series of three with the
\* audit table configured.
C14_Witness ==
    /\ engine_supabase
    /\ apply_call.called
    /\ apply_call.applicable_rules = <<>>
    /\ Len(apply_call.predictions) = 3
    /\ apply_result.adjusted_predictions[3] = RInt(250)
    /\ rule_applications = <<>>

\* C15: for a single rule with magnitude m in [0,15], confidence c and
\* similarity s in (0,1], apply_rules multiplies every prediction of the
\* horizon by 1 + m*c*s/100 when the direction is up and by 1 - m*c*s/100
\* when it is down.
C15_SingleRuleScalesEveryStep ==
    (/\ apply_call.called
     /\ Len(apply_call.applicable_rules) = 1) =>
        LET rule == apply_call.applicable_rules[1]
            m == rule.magnitude_pct
            c == rule.llm_confidence
            s == rule.context_similarity
            pct == RDiv(RMul(m, RMul(c, s)), RInt(100))
            factor == IF rule.direction = "up" THEN RAdd(RInt(1), pct)
                      ELSE RSub(RInt(1), pct)
        IN  (/\ RLe(RInt(0), m) /\ RLe(m, RInt(15))
             /\ RLt(RInt(0), c) /\ RLe(c, RInt(1))
             /\ RLt(RInt(0), s) /\ RLe(s, RInt(1))) =>
                /\ Len(apply_result.adjusted_predictions)
                      = Len(apply_call.predictions)
                /\ \A i \in 1..Len(apply_call.predictions) :
                      apply_result.adjusted_predictions[i]
                          = RMul(apply_call.predictions[i], factor)

\* C15 witness: magnitude 10 up at confidence 0.5 and similarity 1 turned 100
\* into 105 and 250 into 262.5.
C15_Witness ==
    /\ apply_call.called
    /\ Len(apply_call.applicable_rules) = 1
    /\ apply_call.applicable_rules[1].magnitude_pct = RInt(10)
    /\ apply_call.applicable_rules[1].direction = "up"
    /\ apply_call.applicable_rules[1].llm_confidence = Rat(1, 2)
    /\ apply_call.applicable_rules[1].context_similarity = RInt(1)
    /\ Len(apply_call.predictions) = 3
    /\ apply_result.adjusted_predictions[1] = RInt(105)
    /\ apply_result.adjusted_predictions[3] = Rat(525, 2)

\* C16: with the default thresholds the MAPE severity is LOW below 5% and no
\* error is emitted, MEDIUM in [10,15), HIGH in [15,25) and CRITICAL from 25%
\* on, and the emitted error carries that severity.
C16_MapeBands ==
    (mape_call.called /\ mape_call.mape # NoneNum) =>
        LET mape == mape_call.mape
            below(k) == mape.n < k * mape.d
            emitted(severity) ==
                /\ mape_call.severity = severity
                /\ Len(mape_call.errors) = 1
                /\ mape_call.errors[1].severity = severity
                /\ mape_call.errors[1].error_type = "mape_spike"
                /\ mape_call.errors[1].mape = mape
        IN  /\ below(5) => mape_call.severity = "low" /\ mape_call.errors = <<>>
            /\ (~below(10) /\ below(15)) => emitted("medium")
            /\ (~below(15) /\ below(25)) => emitted("high")
            /\ ~below(25) => emitted("critical")

\* C16 witness: a MAPE of exactly 15% was classified HIGH and emitted.
C16_Witness ==
    /\ mape_call.called
    /\ mape_call.mape = RInt(15)
    /\ mape_call.severity = "high"
    /\ Len(mape_call.errors) = 1

\* The lesson of an audit record is in the lesson table and active there; no
\* call changes the table, so this is its state at every match.
ActiveLesson(lesson_id) ==
    /\ generalized_lessons[lesson_id] # NoRow
    /\ generalized_lessons[lesson_id].is_active = TRUE

\* C17: in the adjust() pipeline every RuleApplication emitted (returned by
\* apply_rules) or persisted (a row of rule_applications) carries the id of a
\* lesson that existed and was active when match_rules looked it up, and that
\* lookup did not fail.
C17_AuditOnlyActiveLessons ==
    /\ \A k \in 1..Len(rule_applications) :
          ActiveLesson(rule_applications[k].lesson_id)
    /\ (adjust_call.called /\ adjust_call.applicable_rules # <<>>
        /\ apply_call.called /\ adjust_call.raised \in {"none", "rescale"}) =>
          \A k \in 1..Len(apply_result.applied_rules) :
              /\ ActiveLesson(apply_result.applied_rules[k].lesson_id)
              /\ \E i \in 1..Len(match_call.lessons) :
                    /\ match_call.similar_contexts[i].lesson_id
                          = apply_result.applied_rules[k].lesson_id
                    /\ match_call.lessons[i] # NoRow
                    /\ match_call.lessons[i].is_active = TRUE

\* C17 witness: the lookup hit an active and a deactivated lesson, and the
\* only audit row written is the active one's.
C17_Witness ==
    /\ adjust_call.called
    /\ match_call.called
    /\ Len(match_call.similar_contexts) = 2
    /\ generalized_lessons["L2"] # NoRow
    /\ generalized_lessons["L2"].is_active = FALSE
    /\ match_call.similar_contexts[2].lesson_id = "L2"
    /\ Len(rule_applications) = 1
    /\ rule_applications[1].lesson_id = "L1"

\* The last call went through steps 4 to 6 of adjust_forecast.
AdjustedForecastReturned ==
    /\ adjust_call.called
    /\ adjust_call.raised = "none"
    /\ adjust_call.applicable_rules # <<>>

\* The factor applied to the point values of the returned forecast.
PointFactor ==
    RAdd(RInt(1), RDiv(adjust_response.adjustment_metadata.total_adjustment_pct, RInt(100)))

\* C18: in an adjusted forecast every step that carries q10/q90, whatever its
\* point value, has its q10 and q90 multiplied by the factor applied to the
\* point value, 1 + total_adjustment_pct/100.
C18_QuantilesScaledWithPoint ==
    AdjustedForecastReturned =>
        \A i \in 1..Len(adjust_call.forecast.predictions) :
            LET before == adjust_call.forecast.predictions[i]
                after == adjust_response.predictions[i]
            IN  IsDict(before) =>
                    \A k \in {"q10", "q90"} \cap DOMAIN before.value :
                        after.value[k] = RMul(before.value[k], PointFactor)

\* The rows the last analyze_forecast call added to forecast_errors.
RowsOfCall ==
    SubSeq(forecast_errors, Len(analyze_call.rows_before) + 1, Len(forecast_errors))

\* C19: every HIGH or CRITICAL error detected by analyze() is persisted with
\* analysis_triggered=true: once the call has returned, the store holds no
\* HIGH/CRITICAL row from that call with analysis_triggered=false, even when
\* one of the persistence calls failed.
C19_SignificantRowsTriggered ==
    (analyze_call.called /\ observer_supabase) =>
        /\ \A i \in 1..Len(RowsOfCall) :
              RowsOfCall[i].severity \in {"high", "critical"} =>
                  RowsOfCall[i].analysis_triggered = TRUE
        /\ \A k \in 1..Len(analyze_result) :
              analyze_result[k].severity \in {"high", "critical"} =>
                  \E i \in 1..Len(RowsOfCall) :
                      /\ RowsOfCall[i].forecast_event_id
                            = analyze_result[k].forecast_event_id
                      /\ RowsOfCall[i].error_type = analyze_result[k].error_type
                      /\ RowsOfCall[i].severity = analyze_result[k].severity
                      /\ RowsOfCall[i].analysis_triggered = TRUE

(***************************************************************************)
(* Rule Engine: per-rule ceiling                                           *)
(***************************************************************************)
InUnit(x) == RLe(RInt(0), x) /\ RLe(x, RInt(1))

\* C20: the 15% ceiling holds per rule: for every rule with confidence and
\* similarity in [0,1] and any magnitude_pct the effective_adjustment lies in
\* [-15,+15], so the adjustment_factor of every audit RuleApplication lies in
\* [0.85, 1.15].
C20_PerRuleCeiling ==
    apply_call.called =>
        /\ \A i \in 1..Len(apply_call.applicable_rules) :
              LET rule == apply_call.applicable_rules[i]
              IN  (InUnit(rule.llm_confidence) /\ InUnit(rule.context_similarity)) =>
                      /\ RLe(RInt(-15), effective_adjustment(rule))
                      /\ RLe(effective_adjustment(rule), RInt(15))
        /\ \A k \in 1..Len(apply_result.applied_rules) :
              /\ RLe(Rat(85, 100), apply_result.applied_rules[k].adjustment_factor)
              /\ RLe(apply_result.applied_rules[k].adjustment_factor, Rat(115, 100))

(***************************************************************************)
(* Rule Engine: audit persistence                                          *)
(***************************************************************************)
\* C21: apply_rules never raises because of audit persistence, and the
\* AdjustmentResult it returns (adjusted predictions, total_adjustment_pct,
\* confidence, and exactly one audit record per rule passed in, each with
\* prediction_index 0) is the one computed from its arguments alone, whether
\* the audit inserts succeed, fail, or no backend is configured.
C21_ResultIndependentOfPersistence ==
    apply_call.called =>
        LET rules == apply_call.applicable_rules
            computed == apply_rules(apply_call.predictions, rules, "fc_1")
        IN  /\ apply_result # [raised |-> TRUE]
            /\ apply_result.adjusted_predictions = computed.adjusted_predictions
            /\ apply_result.total_adjustment_pct = computed.total_adjustment_pct
            /\ apply_result.confidence = computed.confidence
            /\ Len(apply_result.applied_rules) = Len(rules)
            /\ \A i \in 1..Len(rules) :
                  /\ apply_result.applied_rules[i].lesson_id = rules[i].lesson_id
                  /\ apply_result.applied_rules[i].prediction_index = 0

\* C21 witness: a call with two rules whose first audit insert failed and
\* whose second stats update failed returned both audit records.
C21_Witness ==
    /\ apply_call.called
    /\ engine_supabase
    /\ Len(apply_call.applicable_rules) = 2
    /\ apply_call.outcomes = <<"insert_fails", "rpc_fails">>
    /\ apply_call.predictions # <<>>
    /\ Len(apply_result.applied_rules) = 2
    /\ apply_result.total_adjustment_pct # RInt(0)

\* C22: rule fusion is order-independent: for every rule list and every
\* permutation of it, apply_rules returns the same total_adjustment_pct, the
\* same adjusted predictions and the same confidence.
C22_FusionOrderIndependent ==
    reorder_call.called =>
        /\ apply_result.total_adjustment_pct = reorder_call.result.total_adjustment_pct
        /\ apply_result.adjusted_predictions = reorder_call.result.adjusted_predictions
        /\ apply_result.confidence = reorder_call.result.confidence

\* C22 witness: three rules of different weight were applied in reverse
\* order, with a non-zero fused adjustment.
C22_Witness ==
    /\ reorder_call.called
    /\ Len(apply_call.applicable_rules) = 3
    /\ apply_call.applicable_rules # reorder_call.applicable_rules
    /\ apply_call.applicable_rules[1] = reorder_call.applicable_rules[3]
    /\ effective_weight(apply_call.applicable_rules[1])
          # effective_weight(apply_call.applicable_rules[3])
    /\ effective_adjustment(apply_call.applicable_rules[1])
          # effective_adjustment(apply_call.applicable_rules[3])
    /\ apply_call.predictions # <<>>
    /\ apply_result.total_adjustment_pct # RInt(0)

(***************************************************************************)
(* LLM Reasoning Service: termination                                      *)
(***************************************************************************)
\* C23: analyze_error always eventually returns a result or the fallback,
\* even if a provider call never completes: each provider call is bounded by
\* a timeout, a timed-out call counts as one failed attempt, and after the
\* retry budget of 3 the fallback is returned.
C23_AnalyzeErrorReturns ==
    (llm_task.pc = "awaiting") ~> (llm_task.pc = "returned")

(***************************************************************************)
(* Error Observer: peak miss                                               *)
(***************************************************************************)
\* One level above a severity, critical staying critical.
OneLevelUp(severity) ==
    CASE severity = "low" -> "medium"
      [] severity = "medium" -> "high"
      [] severity = "high" -> "critical"
      [] severity = "critical" -> "critical"

\* The severity _check_peak_miss settled on: low when it returned no error.
PeakSeverity ==
    IF peak_call.errors = <<>> THEN "low" ELSE peak_call.errors[1].severity

\* C24: in the peak-miss check, when the index offset between predicted and
\* actual peak exceeds 8 steps the severity is exactly one level above the
\* level of the magnitude bands (low to medium, medium to high, high to
\* critical, critical stays critical); when the offset is 8 or less the
\* severity is the magnitude-band level.
C24_PeakTimingEscalatesOneLevel ==
    peak_call.called =>
        PeakSeverity = IF peak_call.timing_error_intervals > 8
                       THEN OneLevelUp(peak_call.by_magnitude)
                       ELSE peak_call.by_magnitude

(***************************************************************************)
(* Forecast Adjuster: logging                                              *)
(***************************************************************************)
\* The events the logger holds, in the table and in the fallback buffer.
LoggedCount == Len(forecast_events) + Len(lists[fallback_logs])

\* The call went as far as the context lookup, the match or the apply.
WentPastLogging(call) ==
    \/ call.weather_raises
    \/ call.raised \in {"lookup", "match", "apply", "rescale"}
    \/ call.applicable_rules # <<>>

\* What one adjust() call did to the log, given the calls that must log.
LogsOncePerCall(must_log(_)) ==
    adjust_count' = adjust_count + 1 =>
        LET call == adjust_call'
            predictions == call.forecast.predictions
        IN  /\ must_log(predictions) =>
                  /\ call.logged
                  /\ LoggedCount' = LoggedCount + 1
                  /\ log_history' = Append(log_history, log_history'[Len(log_history')])
                  /\ log_history'[Len(log_history')].forecast_id = call.forecast_id
            /\ predictions = <<>> =>
                  /\ ~call.logged
                  /\ LoggedCount' = LoggedCount
                  /\ adjust_response'.adjustment_metadata.adjusted = FALSE
            /\ WentPastLogging(call) =>
                  /\ call.logged
                  /\ apply_call' # apply_call =>
                        \A k \in 1..Len(apply_result'.applied_rules) :
                            apply_result'.applied_rules[k].forecast_event_id
                                = call.forecast_id

NonEmpty(predictions) == predictions # <<>>

Extractable(predictions) ==
    predictions # <<>> /\ ~extraction_raises(predictions)

C26_FlushKeepsExactlyTheFailed ==
    last_op.op = "flush" =>
        LET before == last_op.before
            after == lists[fallback_logs]
            failed(forecast_id) == forecast_id \in last_op.failing
            persisted(forecast_id) == forecast_id \notin last_op.failing
            sent == SelectSeq(before, persisted)
            n == Len(forecast_events)
        IN  IF ~logger_supabase
            THEN last_op.flushed = 0 /\ after = before
            ELSE /\ after = SelectSeq(before, failed)
                 /\ last_op.flushed = Len(sent)
                 /\ last_op.flushed + Len(after) = Len(before)
                 /\ n >= Len(sent)
                 /\ \A i \in 1..Len(sent) :
                       forecast_events[n - Len(sent) + i].forecast_id = sent[i]

\* C26 witness: of two buffered events the first failed again and the second
\* was persisted.
C26_Witness ==
    /\ last_op.op = "flush"
    /\ logger_supabase
    /\ Len(last_op.before) = 2
    /\ last_op.failing = {last_op.before[1]}
    /\ last_op.flushed = 1
    /\ lists[fallback_logs] = <<last_op.before[1]>>
    /\ forecast_events # <<>>
    /\ forecast_events[Len(forecast_events)].forecast_id = last_op.before[2]

(***************************************************************************)
(* Rule Engine: aggregate statistics                                       *)
(***************************************************************************)
\* The audit rows of a lesson in table rule_applications.
RowsOfLesson(lesson_id) ==
    LET of_lesson(row) == row.lesson_id = lesson_id
    IN  Len(SelectSeq(rule_applications, of_lesson))

\* C27: after any sequence of apply_rules calls in which each persistence
\* call may succeed or fail, for every lesson the number of aggregate-stats
\* updates issued equals the number of its audit rows inserted: one update
\* per persisted row, and no update without a persisted row.
C27_OneStatsUpdatePerAuditRow ==
    \A l \in LessonIds : stats_calls[l] = RowsOfLesson(l)

\* C27 witness: after calls in which an insert failed and an update raised,
\* the lesson has two audit rows and two updates issued, one of which took
\* effect.
C27_Witness ==
    /\ RowsOfLesson("L1") = 2
    /\ stats_calls["L1"] = 2
    /\ stats_updates["L1"] = 1
    /\ apply_call.called
    /\ apply_call.outcomes = <<"rpc_fails", "insert_fails">>

(***************************************************************************)
(* Error Observer: the LOW band                                            *)
(***************************************************************************)
\* C28: with default thresholds the LOW band of the MAPE check ends at 5%: a
\* forecast whose MAPE is at least 5% is not classified LOW, so a mape_spike
\* error is emitted for it.
C28_LowBandEndsAtFivePercent ==
    (mape_call.called /\ mape_call.mape # NoneNum
     /\ RLe(mape_low, mape_call.mape)) =>
        /\ mape_call.severity # "low"
        /\ Len(mape_call.errors) = 1
        /\ mape_call.errors[1].error_type = "mape_spike"

LessonStoredFor(error_id) ==
    \E k \in 1..Len(stored_lessons) :
        stored_lessons[k].context_snapshot_id = error_id

\* C30: in the manual analysis flow a forecast error is marked
\* analysis-completed, and so leaves the pending-analysis set, only if a
\* lesson was stored for it; when lesson storage fails the error stays
\* pending.
C30_CompletedOnlyWithLesson ==
    /\ \A i \in 1..Len(forecast_errors) :
          forecast_errors[i].analysis_completed => LessonStoredFor(i)
    /\ (/\ trigger_call.called
        /\ trigger_call.status = 200
        /\ trigger_call.lesson_id = NoRow
        /\ trigger_call.error_id \in trigger_call.pending_before) =>
          trigger_call.error_id
              \in get_pending_analysis(observer_supabase, forecast_errors)

=============================================================================
